---- MODULE Spec2Model ----
(***************************************************************************)
(* Model of src/src/utils/utils-yolo/yoloPostprocessUtils.ts: the shape,   *)
(* broadcast, pool/conv attribute and buffer primitives of the tensor      *)
(* operator layer.                                                         *)
(*                                                                         *)
(* The library keeps no state of its own.  The state of the model is one   *)
(* call: the routine called (op), the caller's arguments as they were      *)
(* before the call (args), what the call returned or whether it threw      *)
(* (ret), and the caller-owned objects the routines write through:         *)
(* the two numeric buffers and the three pool/conv attribute vectors.      *)
(* For the routines that take and return shape arrays, heap tells which    *)
(* array objects exist after the call, what each holds, which of them the  *)
(* caller passed in and which ones the result is made of; accesses lists   *)
(* the element reads and writes a call made on tensors, in order.          *)
(*                                                                         *)
(* Conventions.  JavaScript arrays are sequences, so index i of the source *)
(* is position i+1 here; values that are indices in the source (axis,      *)
(* sourceIndex, padHeadIndex, ...) keep their 0-based source value and are *)
(* shifted where they subscript a sequence.  A routine that can throw is   *)
(* an operator returning a record with a field threw.  Numbers are exact:  *)
(* every integer the bounds allow is far below 2^53.  The one place the    *)
(* source divides without flooring (the auto-pad rule) is computed in      *)
(* exact rational arithmetic.                                              *)
(***************************************************************************)
EXTENDS Integers, Sequences, FiniteSets, TLC

VARIABLES op, args, ret, target, source, kernelShape, strides, pads, heap,
          accesses

vars == <<op, args, ret, target, source, kernelShape, strides, pads, heap,
          accesses>>

(***************************************************************************)
(* Bounds of the model.                                                    *)
(***************************************************************************)
MaxRank == 3
MaxDim == 3
MaxHints == 2
MaxHint == 5
MaxAxisExcess == 6
MaxLen == 2
MaxCoef == 2
MaxInputs == 2
MaxInSize == 2
MaxStride == 2
MaxKernel == 3
MaxPad == 1
MaxOutputs == 3
MaxSplits == 2
MaxTensorRank == 2
MaxTensorDim == 2
MaxExtraSteps == 2

(* validateDims: "Only rank 0 to 6 is supported for tensor shape." *)
MaxSupportedRank == 6

SeqsUpTo(S, lo, hi) == UNION {[1..n -> S] : n \in lo..hi}

(* A Shape: rank 1..MaxRank, every dimension a positive integer. *)
Shapes == SeqsUpTo(1..MaxDim, 1, MaxRank)

Max(a, b) == IF a >= b THEN a ELSE b

RECURSIVE Product(_)
Product(s) == IF s = <<>> THEN 1 ELSE Head(s) * Product(Tail(s))

NoValue == <<>>
Thrown == [threw |-> TRUE, value |-> NoValue]
Returned(v) == [threw |-> FALSE, value |-> v]

(* The array objects of a call.  arrays[r] is what the array with reference *)
(* r holds once the call is over; args maps the name of each array          *)
(* argument to its reference; result lists the references of the arrays the *)
(* returned value is made of.                                               *)
NoHeap == [arrays |-> <<>>, args |-> <<>>, result |-> <<>>]

(***************************************************************************)
(* ShapeUtil                                                               *)
(***************************************************************************)

(* getSizeFromDimensionRange(dims, start, end): product of dims[start..end) *)
(* (0-based, end exclusive); throws on a dimension <= 0 in the range.       *)
getSizeFromDimensionRange(dims, start, end) ==
  IF \E i \in start..(end - 1) : dims[i + 1] <= 0
    THEN Thrown
    ELSE Returned(Product([k \in 1..Max(end - start, 0) |-> dims[start + k]]))

size(dims) == getSizeFromDimensionRange(dims, 0, Len(dims))

(* computeStrides, the loop "for (i = rank - 3; i >= 0; --i)"; i is the     *)
(* 0-based loop index, strides the array being filled from the right.      *)
RECURSIVE computeStridesLoop(_, _, _)
computeStridesLoop(shape, i, acc) ==
  IF i < 0
    THEN acc
    ELSE computeStridesLoop(shape, i - 1,
                            [acc EXCEPT ![i + 1] = acc[i + 2] * shape[i + 2]])

(* A mutant of computeStrides: strides[rank - 2] is taken from              *)
(* shape[rank - 2] instead of shape[rank - 1].                              *)
computeStridesOffByOne(shape) ==
  LET rank == Len(shape) IN
  IF rank < 2
    THEN <<1>>
    ELSE computeStridesLoop(shape, rank - 3,
           [k \in 1..rank |-> IF k = rank THEN 1
                              ELSE IF k = rank - 1 THEN shape[rank - 1] ELSE 0])

(* computeStrides(shape): row-major strides; rank < 2 yields [1].  The      *)
(* slots of "new Array(rank)" not yet assigned are written 0 here; every    *)
(* one of them is assigned before the array is returned.                    *)
computeStrides(shape) ==
  LET rank == Len(shape) IN
  IF rank < 2
    THEN <<1>>
    ELSE computeStridesLoop(shape, rank - 3,
           [k \in 1..rank |-> IF k = rank THEN 1
                              ELSE IF k = rank - 1 THEN shape[rank] ELSE 0])

(* indicesToOffset, the loop "for (i = 0; i < indices.length - 1; ++i)".    *)
RECURSIVE indicesToOffsetLoop(_, _, _, _)
indicesToOffsetLoop(indices, strd, i, index) ==
  IF i >= Len(indices) - 1
    THEN index
    ELSE indicesToOffsetLoop(indices, strd, i + 1,
                             index + strd[i + 1] * indices[i + 1])

(* indicesToOffset(indices, strides); called with at least one index. *)
indicesToOffset(indices, strd) ==
  IF Len(strd) = 0
    THEN 0
    ELSE indicesToOffsetLoop(indices, strd, 0, indices[Len(indices)])

(* offsetToIndices, the loop "for (i = 0; i < indices.length - 1; ++i)";    *)
(* acc is the indices array, offset the remaining offset.                   *)
RECURSIVE offsetToIndicesLoop(_, _, _, _)
offsetToIndicesLoop(offset, strd, i, acc) ==
  IF i >= Len(strd) - 1
    THEN [acc EXCEPT ![Len(strd)] = offset]
    ELSE LET q == offset \div strd[i + 1] IN
         offsetToIndicesLoop(offset - q * strd[i + 1], strd, i + 1,
                             [acc EXCEPT ![i + 1] = q])

(* offsetToIndices(offset, strides), offset >= 0. *)
offsetToIndices(offset, strd) ==
  IF Len(strd) = 0 THEN <<>>
  ELSE IF Len(strd) = 1 THEN <<offset>>
  ELSE offsetToIndicesLoop(offset, strd, 0, [k \in 1..Len(strd) |-> 0])

(* getActualAxisFromNegativeValue(axis, tensorRank); the guard is the       *)
(* source's conjunction.                                                    *)
getActualAxisFromNegativeValue(axis, tensorRank) ==
  IF axis < -tensorRank /\ axis > (tensorRank - 1)
    THEN Thrown
    ELSE Returned(IF axis < 0 THEN axis + tensorRank ELSE axis)

(* calculateReshapedDims, the loop over the hints.  i is the 0-based loop   *)
(* index; unknownDimension is -1 or the 0-based position of the -1 hint;    *)
(* unassigned slots of reshapedDims are written 0.                          *)
RECURSIVE reshapeLoop(_, _, _, _, _, _)
reshapeLoop(originalDims, shapeHints, i, reshapedDims, unknownDimension, sz) ==
  IF i >= Len(shapeHints)
    THEN [threw |-> FALSE, reshapedDims |-> reshapedDims,
          unknownDimension |-> unknownDimension, size |-> sz]
  ELSE IF shapeHints[i + 1] < -1
    THEN [threw |-> TRUE, reshapedDims |-> reshapedDims,
          unknownDimension |-> unknownDimension, size |-> sz]
  ELSE IF shapeHints[i + 1] = -1
    THEN IF unknownDimension # -1
           THEN [threw |-> TRUE, reshapedDims |-> reshapedDims,
                 unknownDimension |-> unknownDimension, size |-> sz]
           ELSE reshapeLoop(originalDims, shapeHints, i + 1, reshapedDims, i, sz)
  ELSE IF shapeHints[i + 1] = 0 /\ i >= Len(originalDims)
    THEN [threw |-> TRUE, reshapedDims |-> reshapedDims,
          unknownDimension |-> unknownDimension, size |-> sz]
  ELSE LET d == IF shapeHints[i + 1] = 0 THEN originalDims[i + 1]
                ELSE shapeHints[i + 1]
       IN reshapeLoop(originalDims, shapeHints, i + 1,
                      [reshapedDims EXCEPT ![i + 1] = d], unknownDimension, sz * d)

(* A mutant of calculateReshapedDims: the divisibility test is dropped.     *)
calculateReshapedDimsNoDivCheck(originalDims, shapeHints) ==
  LET l == reshapeLoop(originalDims, shapeHints, 0,
                       [k \in 1..Len(shapeHints) |-> 0], -1, 1)
  IN IF l.threw THEN Thrown
     ELSE IF l.unknownDimension # -1
       THEN LET total == size(originalDims) IN
            IF total.threw THEN Thrown
            ELSE Returned([l.reshapedDims EXCEPT ![l.unknownDimension + 1] =
                             total.value \div l.size])
     ELSE Returned(l.reshapedDims)

(* calculateReshapedDims(originalDims, shapeHints). *)
calculateReshapedDims(originalDims, shapeHints) ==
  LET l == reshapeLoop(originalDims, shapeHints, 0,
                       [k \in 1..Len(shapeHints) |-> 0], -1, 1)
  IN IF l.threw THEN Thrown
     ELSE IF l.unknownDimension # -1
       THEN LET total == size(originalDims) IN
            IF total.threw THEN Thrown
            ELSE IF total.value % l.size # 0 THEN Thrown
            ELSE Returned([l.reshapedDims EXCEPT ![l.unknownDimension + 1] =
                             total.value \div l.size])
     ELSE Returned(l.reshapedDims)

(***************************************************************************)
(* BroadcastUtil                                                           *)
(***************************************************************************)
Undefined == [defined |-> FALSE, value |-> NoValue]
Defined(v) == [defined |-> TRUE, value |-> v]

Min(a, b) == IF a <= b THEN a ELSE b

(* A mutant of calcMatMulShape: b's second entry is compared with a's. *)
calcMatMulShapeWrongAxis(a, b) ==
  IF a[2] # b[2] THEN Undefined ELSE Defined(<<a[1], b[2]>>)

(* calcMatMulShape(a, b) on two pairs. *)
calcMatMulShape(a, b) ==
  IF a[2] # b[1] THEN Undefined ELSE Defined(<<a[1], b[2]>>)

(* A mutant of the loop of calcShape: the smaller of the aligned pair is    *)
(* stored instead of the larger.                                           *)
RECURSIVE calcShapeLoopMin(_, _, _, _)
calcShapeLoopMin(adims, bdims, i, cdims) ==
  LET arank == Len(adims)
      brank == Len(bdims)
      crank == Len(cdims)
      aLen == IF arank - i < 0 THEN 1 ELSE adims[arank - i + 1]
      bLen == IF brank - i < 0 THEN 1 ELSE bdims[brank - i + 1]
  IN IF i > crank THEN Defined(cdims)
     ELSE IF aLen # bLen /\ aLen > 1 /\ bLen > 1 THEN Undefined
     ELSE calcShapeLoopMin(adims, bdims, i + 1,
                           [cdims EXCEPT ![crank - i + 1] = Min(aLen, bLen)])

(* calcShape, the loop "for (i = isMatMul ? 3 : 1; i <= crank; i++)"; i is  *)
(* the source's loop variable, counting axes from the right.                *)
RECURSIVE calcShapeLoop(_, _, _, _)
calcShapeLoop(adims, bdims, i, cdims) ==
  LET arank == Len(adims)
      brank == Len(bdims)
      crank == Len(cdims)
      aLen == IF arank - i < 0 THEN 1 ELSE adims[arank - i + 1]
      bLen == IF brank - i < 0 THEN 1 ELSE bdims[brank - i + 1]
  IN IF i > crank THEN Defined(cdims)
     ELSE IF aLen # bLen /\ aLen > 1 /\ bLen > 1 THEN Undefined
     ELSE calcShapeLoop(adims, bdims, i + 1,
                        [cdims EXCEPT ![crank - i + 1] = Max(aLen, bLen)])

(* calcShape(adims, bdims, isMatMul); unassigned slots of cdims are         *)
(* written 0, and all are assigned before cdims is returned.                *)
calcShape(adims, bdims, isMatMul) ==
  LET arank == Len(adims)
      brank == Len(bdims)
      crank == Max(arank, brank)
      cdims == [k \in 1..crank |-> 0]
  IN IF isMatMul
       THEN IF arank < 2 \/ brank < 2
              THEN Undefined
              ELSE LET cShapeMatMul ==
                         calcMatMulShape(<<adims[arank - 1], adims[arank]>>,
                                         <<bdims[brank - 1], bdims[brank]>>)
                   IN IF ~cShapeMatMul.defined
                        THEN Undefined
                        ELSE calcShapeLoop(adims, bdims, 3,
                               [cdims EXCEPT ![crank - 1] = cShapeMatMul.value[1],
                                             ![crank] = cShapeMatMul.value[2]])
       ELSE calcShapeLoop(adims, bdims, 1, cdims)

(* isValidBroadcast(shape, finalShape). *)
isValidBroadcast(shape, finalShape) ==
  LET inputRank == Len(shape)
      finalRank == Len(finalShape)
  IN IF inputRank > finalRank
       THEN FALSE
       ELSE \A i \in 1..inputRank :
              ~(shape[inputRank - i + 1] # 1
                  /\ shape[inputRank - i + 1] # finalShape[finalRank - i + 1])

(***************************************************************************)
(* arrayCopyHelper and MathUtil                                            *)
(*                                                                         *)
(* A buffer is a sequence of numbers.  Each primitive is an operator from  *)
(* the buffers (tgt, src) and the indices to a record: whether it threw,   *)
(* and the target buffer as the call leaves it.  None writes to src.       *)
(***************************************************************************)
RECURSIVE Pow(_, _)
Pow(x, n) == IF n = 0 THEN 1 ELSE x * Pow(x, n - 1)

(* arrayCopyHelper, the loop "for (offset = 0; offset < blockSize; offset++)". *)
RECURSIVE arrayCopyHelperLoop(_,_,_,_,_,_)
arrayCopyHelperLoop(tgt, src, targetIndex, sourceIndex, blockSize, offset) ==
  IF offset >= blockSize
    THEN tgt
    ELSE arrayCopyHelperLoop([tgt EXCEPT ![targetIndex + offset + 1] =
                    src[sourceIndex + offset + 1]],
                 src, targetIndex, sourceIndex, blockSize, offset + 1)

(* arrayCopyHelper: target[targetIndex + offset] = source[sourceIndex + offset]. *)
arrayCopyHelper(tgt, src, targetIndex, sourceIndex, blockSize) ==
  IF sourceIndex < 0 \/ sourceIndex >= Len(src)
    THEN [threw |-> TRUE, target |-> tgt]
  ELSE IF targetIndex < 0 \/ targetIndex >= Len(tgt)
    THEN [threw |-> TRUE, target |-> tgt]
  ELSE IF sourceIndex + blockSize > Len(src)
    THEN [threw |-> TRUE, target |-> tgt]
  ELSE IF targetIndex + blockSize > Len(tgt)
    THEN [threw |-> TRUE, target |-> tgt]
  ELSE [threw |-> FALSE,
        target |-> arrayCopyHelperLoop(tgt, src, targetIndex, sourceIndex, blockSize, 0)]

(* MathUtil.sqr, the loop "for (offset = 0; offset < blockSize; offset++)". *)
RECURSIVE sqrLoop(_,_,_,_,_,_)
sqrLoop(tgt, src, targetIndex, sourceIndex, blockSize, offset) ==
  IF offset >= blockSize
    THEN tgt
    ELSE sqrLoop([tgt EXCEPT ![targetIndex + offset + 1] =
                    tgt[targetIndex + offset + 1] + Pow(src[sourceIndex + offset + 1], 2)],
                 src, targetIndex, sourceIndex, blockSize, offset + 1)

(* MathUtil.sqr: y = (x*x) + y. *)
sqr(tgt, src, targetIndex, sourceIndex, blockSize) ==
  IF sourceIndex < 0 \/ sourceIndex >= Len(src)
    THEN [threw |-> TRUE, target |-> tgt]
  ELSE IF targetIndex < 0 \/ targetIndex >= Len(tgt)
    THEN [threw |-> TRUE, target |-> tgt]
  ELSE IF sourceIndex + blockSize > Len(src)
    THEN [threw |-> TRUE, target |-> tgt]
  ELSE IF targetIndex + blockSize > Len(tgt)
    THEN [threw |-> TRUE, target |-> tgt]
  ELSE [threw |-> FALSE,
        target |-> sqrLoop(tgt, src, targetIndex, sourceIndex, blockSize, 0)]

(* A mutant of axpy: the test of the target's length is made after the     *)
(* loop instead of before it (stores past the end of a buffer are dropped). *)
axpyCheckAfterWrite(tgt, src, targetIndex, sourceIndex, blockSize, alpha) ==
  IF sourceIndex < 0 \/ sourceIndex >= Len(src)
    THEN [threw |-> TRUE, target |-> tgt]
  ELSE IF targetIndex < 0 \/ targetIndex >= Len(tgt)
    THEN [threw |-> TRUE, target |-> tgt]
  ELSE IF sourceIndex + blockSize > Len(src)
    THEN [threw |-> TRUE, target |-> tgt]
  ELSE [threw |-> targetIndex + blockSize > Len(tgt),
        target |-> [k \in 1..Len(tgt) |->
                      IF k - 1 >= targetIndex /\ k - 1 < targetIndex + blockSize
                        THEN tgt[k] + (alpha * src[sourceIndex + (k - 1 - targetIndex) + 1])
                        ELSE tgt[k]]]

(* MathUtil.axpy, the loop "for (offset = 0; offset < blockSize; offset++)". *)
RECURSIVE axpyLoop(_,_,_,_,_,_,_)
axpyLoop(tgt, src, targetIndex, sourceIndex, blockSize, alpha, offset) ==
  IF offset >= blockSize
    THEN tgt
    ELSE axpyLoop([tgt EXCEPT ![targetIndex + offset + 1] =
                    tgt[targetIndex + offset + 1] + (alpha * src[sourceIndex + offset + 1])],
                 src, targetIndex, sourceIndex, blockSize, alpha, offset + 1)

(* MathUtil.axpy: y = ax + y. *)
axpy(tgt, src, targetIndex, sourceIndex, blockSize, alpha) ==
  IF sourceIndex < 0 \/ sourceIndex >= Len(src)
    THEN [threw |-> TRUE, target |-> tgt]
  ELSE IF targetIndex < 0 \/ targetIndex >= Len(tgt)
    THEN [threw |-> TRUE, target |-> tgt]
  ELSE IF sourceIndex + blockSize > Len(src)
    THEN [threw |-> TRUE, target |-> tgt]
  ELSE IF targetIndex + blockSize > Len(tgt)
    THEN [threw |-> TRUE, target |-> tgt]
  ELSE [threw |-> FALSE,
        target |-> axpyLoop(tgt, src, targetIndex, sourceIndex, blockSize, alpha, 0)]

(* MathUtil.powx, the loop "for (offset = 0; offset < blockSize; offset++)". *)
RECURSIVE powxLoop(_,_,_,_,_,_,_)
powxLoop(tgt, src, targetIndex, sourceIndex, blockSize, b, offset) ==
  IF offset >= blockSize
    THEN tgt
    ELSE powxLoop([tgt EXCEPT ![targetIndex + offset + 1] =
                    Pow(src[sourceIndex + offset + 1], b)],
                 src, targetIndex, sourceIndex, blockSize, b, offset + 1)

(* MathUtil.powx: y = pow(x, b). *)
powx(tgt, src, targetIndex, sourceIndex, blockSize, b) ==
  IF sourceIndex < 0 \/ sourceIndex >= Len(src)
    THEN [threw |-> TRUE, target |-> tgt]
  ELSE IF targetIndex < 0 \/ targetIndex >= Len(tgt)
    THEN [threw |-> TRUE, target |-> tgt]
  ELSE IF sourceIndex + blockSize > Len(src)
    THEN [threw |-> TRUE, target |-> tgt]
  ELSE IF targetIndex + blockSize > Len(tgt)
    THEN [threw |-> TRUE, target |-> tgt]
  ELSE [threw |-> FALSE,
        target |-> powxLoop(tgt, src, targetIndex, sourceIndex, blockSize, b, 0)]

(* MathUtil.mul, the loop "for (offset = 0; offset < blockSize; offset++)". *)
RECURSIVE mulLoop(_,_,_,_,_,_)
mulLoop(tgt, src, targetIndex, sourceIndex, blockSize, offset) ==
  IF offset >= blockSize
    THEN tgt
    ELSE mulLoop([tgt EXCEPT ![targetIndex + offset + 1] =
                    src[sourceIndex + offset + 1] * tgt[targetIndex + offset + 1]],
                 src, targetIndex, sourceIndex, blockSize, offset + 1)

(* MathUtil.mul: y = x * y. *)
mul(tgt, src, targetIndex, sourceIndex, blockSize) ==
  IF sourceIndex < 0 \/ sourceIndex >= Len(src)
    THEN [threw |-> TRUE, target |-> tgt]
  ELSE IF targetIndex < 0 \/ targetIndex >= Len(tgt)
    THEN [threw |-> TRUE, target |-> tgt]
  ELSE IF sourceIndex + blockSize > Len(src)
    THEN [threw |-> TRUE, target |-> tgt]
  ELSE IF targetIndex + blockSize > Len(tgt)
    THEN [threw |-> TRUE, target |-> tgt]
  ELSE [threw |-> FALSE,
        target |-> mulLoop(tgt, src, targetIndex, sourceIndex, blockSize, 0)]

(***************************************************************************)
(* checkInputsShape                                                        *)
(*                                                                         *)
(* inputs is any[]: absent (null or undefined), or an array whose entries  *)
(* are null, undefined, or objects with or without a dims array.  An       *)
(* entry is a record: kind, whether dims is present, and dims.length.      *)
(***************************************************************************)
NullEntry == [kind |-> "null", hasDims |-> FALSE, rank |-> 0]
UndefinedEntry == [kind |-> "undefined", hasDims |-> FALSE, rank |-> 0]
NoDimsEntry == [kind |-> "object", hasDims |-> FALSE, rank |-> 0]
TensorEntry(r) == [kind |-> "object", hasDims |-> TRUE, rank |-> r]

Absent == [present |-> FALSE, items |-> <<>>]
Present(items) == [present |-> TRUE, items |-> items]

(* A mutant of the loop of checkInputsShape: dims.length is read without    *)
(* first testing that dims is there.                                        *)
RECURSIVE checkInputsShapeLoopNoDimsTest(_, _, _)
checkInputsShapeLoopNoDimsTest(items, expectedDimensions, i) ==
  IF i >= Len(items) THEN Returned(TRUE)
  ELSE IF items[i + 1].kind # "object" THEN Thrown
  ELSE IF ~items[i + 1].hasDims THEN Thrown
  ELSE IF items[i + 1].rank # expectedDimensions[i + 1] THEN Returned(FALSE)
  ELSE checkInputsShapeLoopNoDimsTest(items, expectedDimensions, i + 1)

(* checkInputsShape, the loop over the inputs.  Reading inputs[i].dims of   *)
(* a null or undefined entry throws a TypeError.                            *)
RECURSIVE checkInputsShapeLoop(_, _, _)
checkInputsShapeLoop(items, expectedDimensions, i) ==
  IF i >= Len(items) THEN Returned(TRUE)
  ELSE IF items[i + 1].kind # "object" THEN Thrown
  ELSE IF ~items[i + 1].hasDims \/ items[i + 1].rank # expectedDimensions[i + 1]
    THEN Returned(FALSE)
  ELSE checkInputsShapeLoop(items, expectedDimensions, i + 1)

(* checkInputsShape(inputs, ...expectedDimensions). *)
checkInputsShape(inputs, expectedDimensions) ==
  IF ~inputs.present \/ Len(inputs.items) # Len(expectedDimensions)
    THEN Returned(FALSE)
    ELSE checkInputsShapeLoop(inputs.items, expectedDimensions, 0)

(***************************************************************************)
(* PoolConvUtil                                                            *)
(*                                                                         *)
(* The auto-pad rule divides with "/", which in the source is not an       *)
(* integer division, so its intermediate values are fractions.  They are   *)
(* computed exactly: a number is a record [n, d], the fraction n/d in      *)
(* lowest terms with d > 0.  (The rounding of IEEE doubles is not          *)
(* modelled.)                                                              *)
(***************************************************************************)
RECURSIVE GCD(_, _)
GCD(a, b) == IF b = 0 THEN a ELSE GCD(b, a % b)

Abs(a) == IF a < 0 THEN -a ELSE a

(* The fraction n/d (d > 0) in lowest terms. *)
Frac(n, d) == LET g == GCD(Abs(n), d) IN [n |-> n \div g, d |-> d \div g]

Num(i) == [n |-> i, d |-> 1]
Plus(a, b) == Frac(a.n * b.d + b.n * a.d, a.d * b.d)
Minus(a, b) == Frac(a.n * b.d - b.n * a.d, a.d * b.d)
Times(a, b) == Frac(a.n * b.n, a.d * b.d)

(* a / b for b > 0 (every divisor in the source is a stride or 2). *)
Over(a, b) == Frac(a.n * b.d, a.d * b.n)

(* Math.floor *)
Floor(a) == a.n \div a.d

(* The value a JavaScript number holds: the integer, when it is one. *)
Value(a) == IF a.d = 1 THEN a.n ELSE a

(* A mutant of legacyTargetSize: the numerator is inSize + stride.          *)
legacyTargetSizeOffByOne(inSize, stride) ==
  Over(Num(inSize + stride), Num(stride))

(* "const legacyTargetSize = (inSize + stride - 1) / stride", in both       *)
(* SAME_LOWER and SAME_UPPER.                                               *)
legacyTargetSize(inSize, stride) ==
  Over(Num(inSize + stride - 1), Num(stride))

(* "const padNeeded = (legacyTargetSize - 1) * stride + kernel - inSize" *)
padNeededOf(inSize, stride, kernel) ==
  Minus(Plus(Times(Minus(legacyTargetSize(inSize, stride), Num(1)), Num(stride)),
             Num(kernel)),
        Num(inSize))

(* adjustPadAndReturnShape: the size of the output along one axis, and the  *)
(* pads array as the call leaves it.  autoPad is "" when it is not given;   *)
(* padHeadIndex and padTailIndex are 0-based.                               *)
adjustPadAndReturnShape(inSize, stride, kernel, pd, padHeadIndex, padTailIndex, autoPad) ==
  IF autoPad # "" /\ autoPad # "NOTSET"
    THEN CASE autoPad = "VALID" ->
                [threw |-> FALSE,
                 pads |-> [pd EXCEPT ![padHeadIndex + 1] = 0,
                                     ![padTailIndex + 1] = 0],
                 value |-> Floor(Plus(Over(Num(inSize - kernel), Num(stride)),
                                      Num(1)))]
           [] autoPad = "SAME_LOWER" ->
                LET padNeeded1 == padNeededOf(inSize, stride, kernel)
                    head == Floor(Over(Plus(padNeeded1, Num(1)), Num(2)))
                IN [threw |-> FALSE,
                    pads |-> [pd EXCEPT
                                ![padHeadIndex + 1] = head,
                                ![padTailIndex + 1] =
                                   Value(Minus(padNeeded1, Num(head)))],
                    value |-> Floor(Plus(Over(Minus(Plus(Num(inSize), padNeeded1),
                                                    Num(kernel)),
                                              Num(stride)),
                                         Num(1)))]
           [] autoPad = "SAME_UPPER" ->
                LET padNeeded == padNeededOf(inSize, stride, kernel)
                    head == Floor(Over(padNeeded, Num(2)))
                IN [threw |-> FALSE,
                    pads |-> [pd EXCEPT
                                ![padHeadIndex + 1] = head,
                                ![padTailIndex + 1] =
                                   Value(Minus(padNeeded, Num(head)))],
                    value |-> Floor(Plus(Over(Minus(Plus(Num(inSize), padNeeded),
                                                    Num(kernel)),
                                              Num(stride)),
                                         Num(1)))]
           [] OTHER -> [threw |-> TRUE, pads |-> pd, value |-> NoValue]
    ELSE [threw |-> FALSE,
          pads |-> pd,
          value |-> Floor(Plus(Over(Num(inSize + pd[padHeadIndex + 1]
                                          + pd[padTailIndex + 1] - kernel),
                                    Num(stride)),
                               Num(1)))]

(* A mutant of the loop of computeShapeHelper: the head pad's index is      *)
(* passed for the tail pad as well.                                         *)
RECURSIVE computeShapeHelperLoopHeadTwice(_, _, _, _, _, _, _)
computeShapeHelperLoopHeadTwice(inputDims, outputDims, strd, kShape, pd, autoPad, dim) ==
  IF dim >= Len(inputDims) - 2
    THEN [threw |-> FALSE, pads |-> pd, value |-> outputDims]
    ELSE LET r == adjustPadAndReturnShape(inputDims[dim + 3], strd[dim + 1],
                                          kShape[dim + 1], pd, dim, dim, autoPad)
         IN IF r.threw
              THEN [threw |-> TRUE, pads |-> r.pads, value |-> NoValue]
              ELSE computeShapeHelperLoopHeadTwice(inputDims,
                                                   Append(outputDims, r.value),
                                                   strd, kShape, r.pads, autoPad,
                                                   dim + 1)

(* computeShapeHelper, the loop of the non-global branch; dim is the        *)
(* 0-based loop index.                                                      *)
RECURSIVE computeShapeHelperLoop(_, _, _, _, _, _, _)
computeShapeHelperLoop(inputDims, outputDims, strd, kShape, pd, autoPad, dim) ==
  IF dim >= Len(inputDims) - 2
    THEN [threw |-> FALSE, pads |-> pd, value |-> outputDims]
    ELSE LET r == adjustPadAndReturnShape(inputDims[dim + 3], strd[dim + 1],
                                          kShape[dim + 1], pd, dim,
                                          dim + Len(inputDims) - 2, autoPad)
         IN IF r.threw
              THEN [threw |-> TRUE, pads |-> r.pads, value |-> NoValue]
              ELSE computeShapeHelperLoop(inputDims, Append(outputDims, r.value),
                                          strd, kShape, r.pads, autoPad, dim + 1)

(* computeShapeHelper: appends the spatial output sizes to outputDims. *)
computeShapeHelper(isGlobalOperator, inputDims, outputDims, strd, kShape, pd, autoPad) ==
  IF isGlobalOperator
    THEN [threw |-> FALSE, pads |-> pd,
          value |-> outputDims \o [k \in 1..(Len(inputDims) - 2) |-> 1]]
    ELSE computeShapeHelperLoop(inputDims, outputDims, strd, kShape, pd, autoPad, 0)

(* computePoolOutputShape *)
computePoolOutputShape(isGlobalOperator, inputDims, strd, kShape, pd, autoPad) ==
  IF Len(inputDims) <= 0
    THEN [threw |-> TRUE, pads |-> pd, value |-> NoValue]
    ELSE computeShapeHelper(isGlobalOperator, inputDims,
                            <<inputDims[1], inputDims[2]>>, strd, kShape, pd,
                            autoPad)

(* computeConvOutputShape *)
computeConvOutputShape(inputDims, filterDims, strd, kShape, pd, autoPad) ==
  IF Len(inputDims) <= 0 \/ Len(filterDims) <= 0
    THEN [threw |-> TRUE, pads |-> pd, value |-> NoValue]
    ELSE computeShapeHelper(FALSE, inputDims, <<inputDims[1], filterDims[1]>>,
                            strd, kShape, pd, autoPad)

(* adjustPoolAttributes works in place on kernelShape, strides and pads:    *)
(* each of its loops is an operator from the arrays as they are to a        *)
(* record: whether it threw, and the arrays as it leaves them.  dim is the  *)
(* 0-based loop index.                                                      *)

(* "adjust kernel shape to cover the input dims" *)
RECURSIVE adjustKernelLoop(_, _, _)
adjustKernelLoop(inputDims, kShape, dim) ==
  IF dim >= Len(inputDims) - 2
    THEN kShape
    ELSE adjustKernelLoop(inputDims,
                          IF dim >= Len(kShape)
                            THEN Append(kShape, inputDims[dim + 3])
                            ELSE [kShape EXCEPT ![dim + 1] = inputDims[dim + 3]],
                          dim + 1)

(* "adjust strides length to match kernel shape length" *)
RECURSIVE adjustStridesLoop(_, _, _)
adjustStridesLoop(kShape, strd, dim) ==
  IF dim >= Len(kShape)
    THEN [threw |-> FALSE, strides |-> strd]
    ELSE IF dim < Len(strd)
           THEN IF strd[dim + 1] < 0
                  THEN [threw |-> TRUE, strides |-> strd]
                  ELSE adjustStridesLoop(kShape, strd, dim + 1)
           ELSE adjustStridesLoop(kShape, Append(strd, 1), dim + 1)

(* A mutant of the pads loop of adjustPoolAttributes: 1 is pushed, not 0. *)
RECURSIVE adjustPadsLoopAppendsOne(_, _, _)
adjustPadsLoopAppendsOne(kShape, pd, dim) ==
  IF dim >= Len(kShape) * 2
    THEN [threw |-> FALSE, pads |-> pd]
    ELSE IF dim < Len(pd)
           THEN IF pd[dim + 1] < 0
                  THEN [threw |-> TRUE, pads |-> pd]
                  ELSE adjustPadsLoopAppendsOne(kShape, pd, dim + 1)
           ELSE adjustPadsLoopAppendsOne(kShape, Append(pd, 1), dim + 1)

(* "adjust pads length to match 2 * kernel shape length" *)
RECURSIVE adjustPadsLoop(_, _, _)
adjustPadsLoop(kShape, pd, dim) ==
  IF dim >= Len(kShape) * 2
    THEN [threw |-> FALSE, pads |-> pd]
    ELSE IF dim < Len(pd)
           THEN IF pd[dim + 1] < 0
                  THEN [threw |-> TRUE, pads |-> pd]
                  ELSE adjustPadsLoop(kShape, pd, dim + 1)
           ELSE adjustPadsLoop(kShape, Append(pd, 0), dim + 1)

(* "sanity checks for values in kernel shapes and pads": TRUE when one of   *)
(* them throws.  pads has at least 2 * Len(kShape) entries here.            *)
sanityChecksThrow(kShape, pd) ==
  \E dim \in 0..(Len(kShape) - 1) :
    \/ kShape[dim + 1] <= 0
    \/ pd[dim + 1] >= kShape[dim + 1]
    \/ pd[dim + Len(kShape) + 1] >= kShape[dim + 1]

(* adjustPoolAttributes(isGlobalOperator, inputDims, kernelShape, strides,  *)
(* pads), inputDims of rank >= 2.                                           *)
adjustPoolAttributes(isGlobalOperator, inputDims, kShape, strd, pd) ==
  IF ~isGlobalOperator /\ Len(kShape) # Len(inputDims) - 2
    THEN [threw |-> TRUE, kernelShape |-> kShape, strides |-> strd, pads |-> pd]
    ELSE LET k == IF isGlobalOperator
                    THEN adjustKernelLoop(inputDims, kShape, 0)
                    ELSE kShape
             s == adjustStridesLoop(k, strd, 0)
             p == adjustPadsLoop(k, pd, 0)
         IN IF s.threw
              THEN [threw |-> TRUE, kernelShape |-> k, strides |-> s.strides,
                    pads |-> pd]
            ELSE IF p.threw
              THEN [threw |-> TRUE, kernelShape |-> k, strides |-> s.strides,
                    pads |-> p.pads]
            ELSE [threw |-> sanityChecksThrow(k, p.pads), kernelShape |-> k,
                  strides |-> s.strides, pads |-> p.pads]

(***************************************************************************)
(* SplitUtil                                                               *)
(*                                                                         *)
(* split is the caller's array, which determineSplit pushes into: each     *)
(* operator returns split as the call leaves it.  numOutputs is optional:  *)
(* NotSupplied when the caller leaves it out (its value is then not read). *)
(***************************************************************************)
NotSupplied == [supplied |-> FALSE, value |-> 0]
Supplied(n) == [supplied |-> TRUE, value |-> n]

(* determineSplit, the loop "for (i = 0; i < numOutputs; ++i)". *)
RECURSIVE determineSplitLoop(_, _, _, _)
determineSplitLoop(numElementsAlongAxis, numOutputs, split, i) ==
  IF i >= numOutputs
    THEN split
    ELSE determineSplitLoop(numElementsAlongAxis, numOutputs,
                            Append(split, Value(Over(Num(numElementsAlongAxis),
                                                     Num(numOutputs)))),
                            i + 1)

(* A mutant of determineSplit: the remainder is not tested, and the         *)
(* quotient is floored.                                                     *)
determineSplitNoRemainderTest(numElementsAlongAxis, numOutputs, split) ==
  [threw |-> FALSE,
   split |-> split \o [i \in 1..numOutputs |->
                         numElementsAlongAxis \div numOutputs]]

(* determineSplit(numElementsAlongAxis, numOutputs, split), numOutputs > 0. *)
determineSplit(numElementsAlongAxis, numOutputs, split) ==
  IF numElementsAlongAxis % numOutputs # 0
    THEN [threw |-> TRUE, split |-> split]
    ELSE [threw |-> FALSE,
          split |-> determineSplitLoop(numElementsAlongAxis, numOutputs, split, 0)]

(* splitShape, the loop "for (i = 0; i < split.length; ++i)"; i is the      *)
(* 0-based loop index, axis the 0-based axis.                               *)
RECURSIVE splitShapeLoop(_, _, _, _, _, _)
splitShapeLoop(dims, axis, split, i, shapes, offsets) ==
  IF i >= Len(split)
    THEN [shapes |-> shapes, offsets |-> offsets]
    ELSE splitShapeLoop(dims, axis, split, i + 1,
                        Append(shapes, [dims EXCEPT ![axis + 1] = split[i + 1]]),
                        IF i # 0 THEN Append(offsets, offsets[i] + split[i])
                                 ELSE offsets)

(* splitShape(dims, axis, split, numOutputs), 0 <= axis < rank(dims). *)
splitShape(dims, axis, split, numOutputs) ==
  LET d == IF Len(split) = 0
             THEN IF ~numOutputs.supplied \/ numOutputs.value = 0
                    THEN [threw |-> TRUE, split |-> split]
                    ELSE determineSplit(dims[axis + 1], numOutputs.value, split)
             ELSE [threw |-> FALSE, split |-> split]
  IN IF d.threw
       THEN [threw |-> TRUE, split |-> d.split, shapes |-> <<>>, offsets |-> <<>>]
       ELSE LET l == splitShapeLoop(dims, axis, d.split, 0, <<>>, <<0>>)
            IN [threw |-> FALSE, split |-> d.split, shapes |-> l.shapes,
                offsets |-> l.offsets]

(***************************************************************************)
(* GemmUtil                                                                *)
(***************************************************************************)

(* A mutant of getShapeOfGemmResult: transRight is not looked at. *)
getShapeOfGemmResultNoTransRight(leftShape, transLeft, rightShape, transRight, biasShape) ==
  IF Len(leftShape) # 2 \/ Len(rightShape) # 2
    THEN Thrown
    ELSE LET M == IF transLeft THEN leftShape[2] ELSE leftShape[1]
             K == IF transLeft THEN leftShape[1] ELSE leftShape[2]
             N == rightShape[2]
             kDim == 0
         IN IF rightShape[kDim + 1] # K THEN Thrown
            ELSE IF M <= 0 \/ N <= 0 \/ K <= 0 THEN Thrown
            ELSE IF ~isValidBroadcast(biasShape, <<M, N>>) THEN Thrown
            ELSE Returned(<<M, N>>)

(* getShapeOfGemmResult(leftShape, transLeft, rightShape, transRight,       *)
(* biasShape); kDim is the 0-based position of K in rightShape.             *)
getShapeOfGemmResult(leftShape, transLeft, rightShape, transRight, biasShape) ==
  IF Len(leftShape) # 2 \/ Len(rightShape) # 2
    THEN Thrown
    ELSE LET M == IF transLeft THEN leftShape[2] ELSE leftShape[1]
             K == IF transLeft THEN leftShape[1] ELSE leftShape[2]
             N == IF transRight THEN rightShape[1] ELSE rightShape[2]
             kDim == IF transRight THEN 1 ELSE 0
         IN IF rightShape[kDim + 1] # K THEN Thrown
            ELSE IF M <= 0 \/ N <= 0 \/ K <= 0 THEN Thrown
            ELSE IF ~isValidBroadcast(biasShape, <<M, N>>) THEN Thrown
            ELSE Returned(<<M, N>>)

(***************************************************************************)
(* BroadcastUtil.index and BroadcastUtil.calc                              *)
(*                                                                         *)
(* A tensor is an ndarray made by "ndarray(data, shape)": a record of its  *)
(* shape and its flat data, laid out row-major from offset 0.  calc is an  *)
(* operator to a record: whether it threw, whether it returned a tensor,   *)
(* the tensor, whether an output buffer was made, and the element          *)
(* accesses in the order they were made.                                   *)
(***************************************************************************)

(* a.get(...indices) of the ndarray library. *)
ndarrayGet(t, indices) ==
  t.data[indicesToOffset(indices, computeStrides(t.shape)) + 1]

(* c.set(...indices, v) of the ndarray library: the tensor afterwards. *)
ndarraySet(t, indices, v) ==
  [t EXCEPT !.data[indicesToOffset(indices, computeStrides(t.shape)) + 1] = v]

(* The scalar operator lambda passed to calc. *)
Apply(opr, x, y) ==
  CASE opr = "add" -> x + y
    [] opr = "sub" -> x - y

(* A mutant of the loop of index: indices is read at i, not dimOffset + i. *)
RECURSIVE indexLoopNoOffset(_, _, _, _, _, _)
indexLoopNoOffset(indices, shapeOrigin, dimOffset, dimLen, i, indicesOrigin) ==
  IF i >= dimLen
    THEN indicesOrigin
    ELSE indexLoopNoOffset(indices, shapeOrigin, dimOffset, dimLen, i + 1,
                           [indicesOrigin EXCEPT ![i + 1] =
                              indices[i + 1] % shapeOrigin[i + 1]])

(* index, the loop "for (i = 0; i < dimLen; i++)". *)
RECURSIVE indexLoop(_, _, _, _, _, _)
indexLoop(indices, shapeOrigin, dimOffset, dimLen, i, indicesOrigin) ==
  IF i >= dimLen
    THEN indicesOrigin
    ELSE indexLoop(indices, shapeOrigin, dimOffset, dimLen, i + 1,
                   [indicesOrigin EXCEPT ![i + 1] =
                      indices[dimOffset + i + 1] % shapeOrigin[i + 1]])

(* index(indices, shapeOrigin, isMatMul); indices is at least as long as    *)
(* shapeOrigin ("we assume the parameter indices is valid").                *)
index(indices, shapeOrigin, isMatMul) ==
  LET dimOffset == Len(indices) - Len(shapeOrigin)
      indicesOrigin == SubSeq(indices, dimOffset + 1, Len(indices))
      dimLen == IF isMatMul THEN Len(indicesOrigin) - 2 ELSE Len(indicesOrigin)
  IN indexLoop(indices, shapeOrigin, dimOffset, dimLen, 0, indicesOrigin)

(* calc, "traversal indices": the loop "for (j = shape.length - 1; j >= 0;  *)
(* j--)"; j is the 0-based loop index.                                      *)
RECURSIVE traversalLoop(_, _, _, _)
traversalLoop(shape, j, rest, indices) ==
  IF j < 0
    THEN indices
    ELSE traversalLoop(shape, j - 1, rest \div shape[j + 1],
                       [indices EXCEPT ![j + 1] = rest % shape[j + 1]])

(* calc, the loop "for (i = 0; i < size; i++)"; c is the output tensor and  *)
(* log the accesses so far.                                                 *)
RECURSIVE calcLoop(_, _, _, _, _, _, _, _)
calcLoop(a, b, opr, shape, sz, i, c, log) ==
  IF i >= sz
    THEN [c |-> c, log |-> log]
    ELSE LET indices == traversalLoop(shape, Len(shape) - 1, i,
                                      [k \in 1..Len(shape) |-> 0])
             indicesA == index(indices, a.shape, FALSE)
             indicesB == index(indices, b.shape, FALSE)
             v == Apply(opr, ndarrayGet(a, indicesA), ndarrayGet(b, indicesB))
         IN calcLoop(a, b, opr, shape, sz, i + 1, ndarraySet(c, indices, v),
                     log \o <<[kind |-> "get", tensor |-> "a", indices |-> indicesA],
                              [kind |-> "get", tensor |-> "b", indices |-> indicesB],
                              [kind |-> "set", tensor |-> "c", indices |-> indices]>>)

(* A mutant of calc: "if (shape)" is dropped, so that the size of an        *)
(* undefined shape is asked for, which throws.                              *)
calcNoShapeTest(a, b, opr) ==
  LET shape == calcShape(a.shape, b.shape, FALSE) IN
  IF ~shape.defined
    THEN [threw |-> TRUE, defined |-> FALSE, value |-> NoValue,
          allocated |-> FALSE, accesses |-> <<>>]
    ELSE LET sz == size(shape.value).value
             c == [shape |-> shape.value, data |-> [k \in 1..sz |-> 0]]
             l == calcLoop(a, b, opr, shape.value, sz, 0, c, <<>>)
         IN [threw |-> FALSE, defined |-> TRUE, value |-> l.c,
             allocated |-> TRUE, accesses |-> l.log]

(* calc(a, b, op).  The shape calcShape returns has positive dimensions,    *)
(* so ShapeUtil.size does not throw; the new typed array holds zeros.       *)
calc(a, b, opr) ==
  LET shape == calcShape(a.shape, b.shape, FALSE) IN
  IF shape.defined
    THEN LET sz == size(shape.value).value
             c == [shape |-> shape.value, data |-> [k \in 1..sz |-> 0]]
             l == calcLoop(a, b, opr, shape.value, sz, 0, c, <<>>)
         IN [threw |-> FALSE, defined |-> TRUE, value |-> l.c,
             allocated |-> TRUE, accesses |-> l.log]
    ELSE [threw |-> FALSE, defined |-> FALSE, value |-> NoValue,
          allocated |-> FALSE, accesses |-> <<>>]

(***************************************************************************)
(* ShapeUtil.incrementIndex                                                *)
(***************************************************************************)

(* A mutant of the loop of incrementIndex: a position that reaches its      *)
(* dimension is carried over without being set back to 0.                   *)
RECURSIVE incrementIndexLoopNoReset(_, _, _)
incrementIndexLoopNoReset(idx, dims, k) ==
  IF k < 0
    THEN idx
    ELSE LET bumped == [idx EXCEPT ![k + 1] = idx[k + 1] + 1] IN
         IF bumped[k + 1] < dims[k + 1]
           THEN bumped
           ELSE incrementIndexLoopNoReset(bumped, dims, k - 1)

(* incrementIndex, the loop "for (k = axisToIncrementOn - 1; k >= 0; --k)"; *)
(* k is the 0-based loop index, idx the index array as it is.               *)
RECURSIVE incrementIndexLoop(_, _, _)
incrementIndexLoop(idx, dims, k) ==
  IF k < 0
    THEN idx
    ELSE LET bumped == [idx EXCEPT ![k + 1] = idx[k + 1] + 1] IN
         IF bumped[k + 1] < dims[k + 1]
           THEN bumped
           ELSE incrementIndexLoop([bumped EXCEPT ![k + 1] = 0], dims, k - 1)

(* incrementIndex(index, dims, axisToIncrementOn): the index array as the   *)
(* call leaves it.  axisToIncrementOn is optional.                          *)
incrementIndex(idx, dims, axisToIncrementOn) ==
  incrementIndexLoop(idx, dims,
                     (IF axisToIncrementOn.supplied THEN axisToIncrementOn.value
                      ELSE Len(dims)) - 1)

(***************************************************************************)
(* ShapeUtil.transpose, sortBasedOnPerm, padShape, splitDimsIntoTwo        *)
(*                                                                         *)
(* Array.prototype.reverse reverses the array it is called on and returns  *)
(* that same array; slice and map return a new one.  transpose is an       *)
(* operator to a record: dims as the call leaves it, the value returned,   *)
(* and whether the array returned is the argument itself.                  *)
(***************************************************************************)
Reverse(s) == [k \in 1..Len(s) |-> s[Len(s) + 1 - k]]

(* transpose(dims): "return dims.reverse()". *)
transpose(dims) ==
  [dims |-> Reverse(dims), value |-> Reverse(dims), sameArray |-> TRUE]

(* sortBasedOnPerm(a, perm): perm is optional, and holds 0-based positions. *)
sortBasedOnPerm(a, perm) ==
  IF perm.defined
    THEN [v \in 1..Len(perm.value) |-> a[perm.value[v] + 1]]
    ELSE Reverse(a)

(* padShape(dims, pad). *)
padShape(dims, pad) ==
  LET rank == Len(dims) IN
  [i \in 1..rank |-> dims[i] + pad[i] + pad[i + rank]]

(* splitDimsIntoTwo, the loop "for (i = 0; i < dims.length; ++i)". *)
RECURSIVE splitDimsIntoTwoLoop(_, _, _, _, _)
splitDimsIntoTwoLoop(dims, pick, i, picked, remnants) ==
  IF i >= Len(dims)
    THEN <<picked, remnants>>
    ELSE IF i = pick
           THEN splitDimsIntoTwoLoop(dims, pick, i + 1,
                                     Append(picked, dims[i + 1]), remnants)
           ELSE splitDimsIntoTwoLoop(dims, pick, i + 1, picked,
                                     Append(remnants, dims[i + 1]))

(* splitDimsIntoTwo(dims, pick), pick 0-based. *)
splitDimsIntoTwo(dims, pick) == splitDimsIntoTwoLoop(dims, pick, 0, <<>>, <<>>)

(***************************************************************************)
(* The caller: one call per behaviour.                                     *)
(***************************************************************************)
Init ==
  /\ op = "none"
  /\ args = NoValue
  /\ ret = NoValue
  /\ target = <<>>
  /\ source = <<>>
  /\ kernelShape = <<>>
  /\ strides = <<>>
  /\ pads = <<>>
  /\ heap = NoHeap
  /\ accesses = <<>>

Idle == op = "none"

(* The caller-owned objects, which most routines never write through. *)
callerOwned == <<target, source, kernelShape, strides, pads, heap, accesses>>

(* Index vectors of a shape: 0 <= idx[i] < shape[i]. *)
IndicesOf(shape) ==
  {idx \in [1..Len(shape) -> 0..(MaxDim - 1)] :
     \A k \in 1..Len(shape) : idx[k] < shape[k]}

Hints == SeqsUpTo((-2)..MaxHint, 0, MaxHints)

CallCalculateReshapedDims ==
  /\ Idle
  /\ \E originalDims \in Shapes, shapeHints \in Hints :
       /\ op' = "calculateReshapedDims"
       /\ args' = [originalDims |-> originalDims, shapeHints |-> shapeHints]
       /\ ret' = calculateReshapedDims(originalDims, shapeHints)
       /\ heap' = LET r == calculateReshapedDims(originalDims, shapeHints) IN
                  IF r.threw
                    THEN [arrays |-> <<originalDims, shapeHints>>,
                          args |-> [originalDims |-> 1, shapeHints |-> 2],
                          result |-> <<>>]
                    ELSE [arrays |-> <<originalDims, shapeHints, r.value>>,
                          args |-> [originalDims |-> 1, shapeHints |-> 2],
                          result |-> <<3>>]
  /\ UNCHANGED <<target, source, kernelShape, strides, pads, accesses>>

CallGetActualAxisFromNegativeValue ==
  /\ Idle
  /\ \E tensorRank \in 1..MaxSupportedRank :
       \E axis \in (-(tensorRank + MaxAxisExcess))..(tensorRank + MaxAxisExcess) :
         /\ op' = "getActualAxisFromNegativeValue"
         /\ args' = [axis |-> axis, tensorRank |-> tensorRank]
         /\ ret' = getActualAxisFromNegativeValue(axis, tensorRank)
  /\ UNCHANGED callerOwned

CallComputeStrides ==
  /\ Idle
  /\ \E shape \in Shapes :
       /\ op' = "computeStrides"
       /\ args' = [shape |-> shape]
       /\ ret' = Returned(computeStrides(shape))
       /\ heap' = [arrays |-> <<shape, computeStrides(shape)>>,
                   args |-> [shape |-> 1], result |-> <<2>>]
  /\ UNCHANGED <<target, source, kernelShape, strides, pads, accesses>>

(* indicesToOffset on an index vector of a shape, under that shape's strides. *)
CallIndicesToOffset ==
  /\ Idle
  /\ \E shape \in Shapes :
       \E indices \in IndicesOf(shape) :
         /\ op' = "indicesToOffset"
         /\ args' = [shape |-> shape, indices |-> indices,
                     strides |-> computeStrides(shape)]
         /\ ret' = Returned(indicesToOffset(indices, computeStrides(shape)))
  /\ UNCHANGED callerOwned

(* offsetToIndices on an offset of a shape, under that shape's strides. *)
CallOffsetToIndices ==
  /\ Idle
  /\ \E shape \in Shapes :
       \E offset \in 0..(Product(shape) - 1) :
         /\ op' = "offsetToIndices"
         /\ args' = [shape |-> shape, offset |-> offset,
                     strides |-> computeStrides(shape)]
         /\ ret' = Returned(offsetToIndices(offset, computeStrides(shape)))
  /\ UNCHANGED callerOwned

NextShape ==
  \/ CallCalculateReshapedDims
  \/ CallGetActualAxisFromNegativeValue
  \/ CallComputeStrides
  \/ CallIndicesToOffset
  \/ CallOffsetToIndices

SpecShape == Init /\ [][NextShape]_vars

CallCalcShape ==
  /\ Idle
  /\ \E adims \in Shapes, bdims \in Shapes, isMatMul \in BOOLEAN :
       /\ op' = "calcShape"
       /\ args' = [adims |-> adims, bdims |-> bdims, isMatMul |-> isMatMul]
       /\ ret' = calcShape(adims, bdims, isMatMul)
       /\ heap' = LET r == calcShape(adims, bdims, isMatMul) IN
                  IF r.defined
                    THEN [arrays |-> <<adims, bdims, r.value>>,
                          args |-> [adims |-> 1, bdims |-> 2], result |-> <<3>>]
                    ELSE [arrays |-> <<adims, bdims>>,
                          args |-> [adims |-> 1, bdims |-> 2], result |-> <<>>]
  /\ UNCHANGED <<target, source, kernelShape, strides, pads, accesses>>

CallIsValidBroadcast ==
  /\ Idle
  /\ \E shape \in Shapes, finalShape \in Shapes :
       /\ op' = "isValidBroadcast"
       /\ args' = [shape |-> shape, finalShape |-> finalShape]
       /\ ret' = Returned(isValidBroadcast(shape, finalShape))
  /\ UNCHANGED callerOwned

NextBroadcast ==
  \/ CallCalcShape
  \/ CallIsValidBroadcast

SpecBroadcast == Init /\ [][NextBroadcast]_vars

(* The buffers and positions a caller may pass to a primitive: lengths up   *)
(* to MaxLen, indices and block sizes from one below to one above the       *)
(* buffers' range.                                                          *)
SourceVals == {2, 3}
TargetVals == {1, 5}
Indexes == (-1)..MaxLen
BlockSizes == (-1)..(MaxLen + 1)
Coefs == 0..MaxCoef

CallArrayCopyHelper ==
  /\ Idle
  /\ \E t \in SeqsUpTo(TargetVals, 0, MaxLen), s \in SeqsUpTo(SourceVals, 0, MaxLen),
        targetIndex \in Indexes, sourceIndex \in Indexes,
        blockSize \in BlockSizes :
       LET r == arrayCopyHelper(t, s, targetIndex, sourceIndex, blockSize) IN
       /\ op' = "arrayCopyHelper"
       /\ args' = [target |-> t, source |-> s, targetIndex |-> targetIndex,
                   sourceIndex |-> sourceIndex, blockSize |-> blockSize]
       /\ ret' = IF r.threw THEN Thrown ELSE Returned(NoValue)
       /\ target' = r.target
       /\ source' = s
  /\ UNCHANGED <<kernelShape, strides, pads, heap, accesses>>

CallSqr ==
  /\ Idle
  /\ \E t \in SeqsUpTo(TargetVals, 0, MaxLen), s \in SeqsUpTo(SourceVals, 0, MaxLen),
        targetIndex \in Indexes, sourceIndex \in Indexes,
        blockSize \in BlockSizes :
       LET r == sqr(t, s, targetIndex, sourceIndex, blockSize) IN
       /\ op' = "sqr"
       /\ args' = [target |-> t, source |-> s, targetIndex |-> targetIndex,
                   sourceIndex |-> sourceIndex, blockSize |-> blockSize]
       /\ ret' = IF r.threw THEN Thrown ELSE Returned(NoValue)
       /\ target' = r.target
       /\ source' = s
  /\ UNCHANGED <<kernelShape, strides, pads, heap, accesses>>

CallAxpy ==
  /\ Idle
  /\ \E t \in SeqsUpTo(TargetVals, 0, MaxLen), s \in SeqsUpTo(SourceVals, 0, MaxLen),
        targetIndex \in Indexes, sourceIndex \in Indexes,
        blockSize \in BlockSizes, alpha \in Coefs :
       LET r == axpy(t, s, targetIndex, sourceIndex, blockSize, alpha) IN
       /\ op' = "axpy"
       /\ args' = [target |-> t, source |-> s, targetIndex |-> targetIndex,
                   sourceIndex |-> sourceIndex, blockSize |-> blockSize, alpha |-> alpha]
       /\ ret' = IF r.threw THEN Thrown ELSE Returned(NoValue)
       /\ target' = r.target
       /\ source' = s
  /\ UNCHANGED <<kernelShape, strides, pads, heap, accesses>>

CallPowx ==
  /\ Idle
  /\ \E t \in SeqsUpTo(TargetVals, 0, MaxLen), s \in SeqsUpTo(SourceVals, 0, MaxLen),
        targetIndex \in Indexes, sourceIndex \in Indexes,
        blockSize \in BlockSizes, b \in Coefs :
       LET r == powx(t, s, targetIndex, sourceIndex, blockSize, b) IN
       /\ op' = "powx"
       /\ args' = [target |-> t, source |-> s, targetIndex |-> targetIndex,
                   sourceIndex |-> sourceIndex, blockSize |-> blockSize, b |-> b]
       /\ ret' = IF r.threw THEN Thrown ELSE Returned(NoValue)
       /\ target' = r.target
       /\ source' = s
  /\ UNCHANGED <<kernelShape, strides, pads, heap, accesses>>

CallMul ==
  /\ Idle
  /\ \E t \in SeqsUpTo(TargetVals, 0, MaxLen), s \in SeqsUpTo(SourceVals, 0, MaxLen),
        targetIndex \in Indexes, sourceIndex \in Indexes,
        blockSize \in BlockSizes :
       LET r == mul(t, s, targetIndex, sourceIndex, blockSize) IN
       /\ op' = "mul"
       /\ args' = [target |-> t, source |-> s, targetIndex |-> targetIndex,
                   sourceIndex |-> sourceIndex, blockSize |-> blockSize]
       /\ ret' = IF r.threw THEN Thrown ELSE Returned(NoValue)
       /\ target' = r.target
       /\ source' = s
  /\ UNCHANGED <<kernelShape, strides, pads, heap, accesses>>

NextMath ==
  \/ CallArrayCopyHelper
  \/ CallSqr
  \/ CallAxpy
  \/ CallPowx
  \/ CallMul

SpecMath == Init /\ [][NextMath]_vars

Entries ==
  {NullEntry, UndefinedEntry, NoDimsEntry} \cup {TensorEntry(r) : r \in 0..MaxRank}

InputLists == {Absent} \cup {Present(items) : items \in SeqsUpTo(Entries, 0, MaxInputs)}

CallCheckInputsShape ==
  /\ Idle
  /\ \E inputs \in InputLists,
        expectedDimensions \in SeqsUpTo(0..MaxRank, 0, MaxInputs) :
       /\ op' = "checkInputsShape"
       /\ args' = [inputs |-> inputs, expectedDimensions |-> expectedDimensions]
       /\ ret' = checkInputsShape(inputs, expectedDimensions)
  /\ UNCHANGED callerOwned

NextGuard == CallCheckInputsShape

SpecGuard == Init /\ [][NextGuard]_vars

(* The calls of the output-shape routines: one or two spatial axes, every   *)
(* axis with its own input size, stride and kernel size; pads holds one     *)
(* value for the heads and one for the tails.  32 is the input size of the  *)
(* documented examples.                                                     *)
SpatialRanks == {1, 2}
InSizes == (1..MaxInSize) \cup {32}
AutoPads == {"", "NOTSET", "VALID", "SAME_UPPER", "SAME_LOWER", "SAME"}
HeadTailPads(r) ==
  {[k \in 1..(2 * r) |-> IF k <= r THEN h ELSE t] : h, t \in 0..MaxPad}

CallComputePoolOutputShape ==
  /\ Idle
  /\ \E r \in SpatialRanks :
       \E spatial \in [1..r -> InSizes], strd \in [1..r -> 1..MaxStride],
          kShape \in [1..r -> 1..MaxKernel], pd \in HeadTailPads(r),
          autoPad \in AutoPads, isGlobalOperator \in BOOLEAN :
         LET inputDims == <<1, 3>> \o spatial
             res == computePoolOutputShape(isGlobalOperator, inputDims, strd,
                                           kShape, pd, autoPad)
         IN /\ op' = "computePoolOutputShape"
            /\ args' = [isGlobalOperator |-> isGlobalOperator,
                        inputDims |-> inputDims, strides |-> strd,
                        kernelShape |-> kShape, pads |-> pd, autoPad |-> autoPad]
            /\ ret' = IF res.threw THEN Thrown ELSE Returned(res.value)
            /\ kernelShape' = kShape
            /\ strides' = strd
            /\ pads' = res.pads
  /\ UNCHANGED <<target, source, heap, accesses>>

CallComputeConvOutputShape ==
  /\ Idle
  /\ \E r \in SpatialRanks :
       \E spatial \in [1..r -> InSizes], strd \in [1..r -> 1..MaxStride],
          kShape \in [1..r -> 1..MaxKernel], pd \in HeadTailPads(r),
          autoPad \in AutoPads :
         LET inputDims == <<1, 3>> \o spatial
             filterDims == <<4, 3>> \o kShape
             res == computeConvOutputShape(inputDims, filterDims, strd, kShape,
                                           pd, autoPad)
         IN /\ op' = "computeConvOutputShape"
            /\ args' = [isGlobalOperator |-> FALSE,
                        inputDims |-> inputDims, filterDims |-> filterDims,
                        strides |-> strd, kernelShape |-> kShape, pads |-> pd,
                        autoPad |-> autoPad]
            /\ ret' = IF res.threw THEN Thrown ELSE Returned(res.value)
            /\ kernelShape' = kShape
            /\ strides' = strd
            /\ pads' = res.pads
  /\ UNCHANGED <<target, source, heap, accesses>>

NextPoolShape ==
  \/ CallComputePoolOutputShape
  \/ CallComputeConvOutputShape

SpecPoolShape == Init /\ [][NextPoolShape]_vars

(* The attribute vectors a caller may pass to adjustPoolAttributes: a       *)
(* kernel shape one shorter than, as long as or one longer than the         *)
(* spatial rank, strides and pads of any length up to the full one, with    *)
(* entries that are negative, zero or positive.                             *)
KernelDims == {0, 1, 2}
StrideVals == {-1, 1, 2}
PadVals == {-1, 0, 1}
SpatialDimsOf(r) == [k \in 1..r |-> IF k = 1 THEN 2 ELSE 1]

CallAdjustPoolAttributes ==
  /\ Idle
  /\ \E r \in SpatialRanks, isGlobalOperator \in BOOLEAN :
       \E kShape \in SeqsUpTo(KernelDims, r - 1, r + 1),
          strd \in SeqsUpTo(StrideVals, 0, r),
          pd \in SeqsUpTo(PadVals, 0, 2 * r) :
         LET inputDims == <<1, 3>> \o SpatialDimsOf(r)
             res == adjustPoolAttributes(isGlobalOperator, inputDims, kShape,
                                         strd, pd)
         IN /\ op' = "adjustPoolAttributes"
            /\ args' = [isGlobalOperator |-> isGlobalOperator,
                        inputDims |-> inputDims, kernelShape |-> kShape,
                        strides |-> strd, pads |-> pd]
            /\ ret' = IF res.threw THEN Thrown ELSE Returned(NoValue)
            /\ kernelShape' = res.kernelShape
            /\ strides' = res.strides
            /\ pads' = res.pads
  /\ UNCHANGED <<target, source, heap, accesses>>

NextPoolAttributes == CallAdjustPoolAttributes

SpecPoolAttributes == Init /\ [][NextPoolAttributes]_vars

(* The calls of splitShape: a shape (those of the documented examples       *)
(* among them), an axis of it, a split that is empty or lists sizes, and a  *)
(* number of outputs that is absent, zero or positive.  dims has reference  *)
(* 1 and split reference 2; every shape of the result is "dims.slice()", a  *)
(* new array, and so is offsets.                                            *)
SplitDims == Shapes \cup {<<1, 9, 4>>, <<1, 10, 4>>}
SplitSizes == {1, 2}
OutputCounts == {NotSupplied} \cup {Supplied(n) : n \in 0..MaxOutputs}

CallSplitShape ==
  /\ Idle
  /\ \E dims \in SplitDims, split \in SeqsUpTo(SplitSizes, 0, MaxSplits) :
       \E axis \in 0..(Len(dims) - 1),
          numOutputs \in IF split = <<>> THEN OutputCounts
                         ELSE {NotSupplied, Supplied(Len(split))} :
         LET r == splitShape(dims, axis, split, numOutputs)
             n == Len(r.shapes)
         IN /\ op' = "splitShape"
            /\ args' = [dims |-> dims, axis |-> axis, split |-> split,
                        numOutputs |-> numOutputs]
            /\ ret' = IF r.threw THEN Thrown
                      ELSE Returned([shapes |-> r.shapes, offsets |-> r.offsets])
            /\ heap' = IF r.threw
                         THEN [arrays |-> <<dims, r.split>>,
                               args |-> [dims |-> 1, split |-> 2],
                               result |-> <<>>]
                         ELSE [arrays |-> <<dims, r.split>> \o r.shapes
                                            \o <<r.offsets>>,
                               args |-> [dims |-> 1, split |-> 2],
                               result |-> [k \in 1..(n + 1) |-> 2 + k]]
  /\ UNCHANGED <<target, source, kernelShape, strides, pads, accesses>>

NextSplit == CallSplitShape

SpecSplit == Init /\ [][NextSplit]_vars

(* The calls of getShapeOfGemmResult: operand shapes of rank 2 with         *)
(* dimensions that are zero or positive, one of rank 1 and one of rank 3,   *)
(* and a bias of rank 0 to 3.                                               *)
GemmDims == {0, 2, 3, 4, 5}
GemmShapes == [1..2 -> GemmDims] \cup {<<2>>, <<2, 3, 4>>}
BiasShapes == SeqsUpTo({1, 2, 4}, 0, 2) \cup {<<1, 2, 4>>}

CallGetShapeOfGemmResult ==
  /\ Idle
  /\ \E leftShape \in GemmShapes, rightShape \in GemmShapes,
        transLeft \in BOOLEAN, transRight \in BOOLEAN, biasShape \in BiasShapes :
       /\ op' = "getShapeOfGemmResult"
       /\ args' = [leftShape |-> leftShape, transLeft |-> transLeft,
                   rightShape |-> rightShape, transRight |-> transRight,
                   biasShape |-> biasShape]
       /\ ret' = getShapeOfGemmResult(leftShape, transLeft, rightShape,
                                      transRight, biasShape)
  /\ UNCHANGED callerOwned

NextGemm == CallGetShapeOfGemmResult

SpecGemm == Init /\ [][NextGemm]_vars

(* The calls of calc: two tensors of any two shapes up to the bounds (and   *)
(* five larger shapes), every element of a holding its own value            *)
(* and every element of b its own multiple of 100, and an operator that is  *)
(* or is not commutative.  a.data has reference 1, b.data reference 2, and  *)
(* the output buffer, when one is made, reference 3.                        *)
TensorShapes ==
  SeqsUpTo(1..MaxTensorDim, 1, MaxTensorRank)
    \cup {<<3>>, <<4>>, <<3, 1>>, <<3, 2>>, <<2, 1, 3>>}
TensorOf(shape, unit) ==
  [shape |-> shape, data |-> [k \in 1..Product(shape) |-> unit * k]]
Operators == {"add", "sub"}

CallCalc ==
  /\ Idle
  /\ \E ashape \in TensorShapes, bshape \in TensorShapes, opr \in Operators :
       LET a == TensorOf(ashape, 1)
           b == TensorOf(bshape, 100)
           r == calc(a, b, opr)
       IN /\ op' = "calc"
          /\ args' = [a |-> a, b |-> b, op |-> opr]
          /\ ret' = [threw |-> r.threw, defined |-> r.defined, value |-> r.value]
          /\ heap' = [arrays |-> IF r.allocated
                                   THEN <<a.data, b.data, r.value.data>>
                                   ELSE <<a.data, b.data>>,
                      args |-> [a |-> 1, b |-> 2],
                      result |-> IF r.defined THEN <<3>> ELSE <<>>]
          /\ accesses' = r.accesses
  /\ UNCHANGED <<target, source, kernelShape, strides, pads>>

NextCalc == CallCalc

SpecCalc == Init /\ [][NextCalc]_vars

(* A traversal: the caller makes the all-zero index of a shape and then     *)
(* calls incrementIndex on it again and again, with the same dims and the   *)
(* same axisToIncrementOn (absent, or 0..rank).  The index array has        *)
(* reference 1 and dims reference 2.  args keeps what the caller knows:     *)
(* the index before the last call, the number of calls made (step) and the  *)
(* indices the calls produced (visited).  A traversal is followed for       *)
(* MaxExtraSteps calls beyond one full round.                               *)
NewIndex ==
  /\ Idle
  /\ \E dims \in Shapes :
       \E axisToIncrementOn \in
            {NotSupplied} \cup {Supplied(m) : m \in 0..Len(dims)} :
         /\ op' = "newIndex"
         /\ args' = [dims |-> dims, axisToIncrementOn |-> axisToIncrementOn,
                     index |-> [k \in 1..Len(dims) |-> 0], step |-> 0,
                     visited |-> <<>>]
         /\ heap' = [arrays |-> <<[k \in 1..Len(dims) |-> 0], dims>>,
                     args |-> [index |-> 1, dims |-> 2],
                     result |-> <<>>]
  /\ ret' = Returned(NoValue)
  /\ UNCHANGED <<target, source, kernelShape, strides, pads, accesses>>

CallIncrementIndex ==
  /\ op \in {"newIndex", "incrementIndex"}
  /\ args.step < Product(args.dims) + MaxExtraSteps
  /\ LET before == heap.arrays[1]
         after == incrementIndex(before, args.dims, args.axisToIncrementOn)
     IN /\ op' = "incrementIndex"
        /\ args' = [args EXCEPT !.index = before, !.step = @ + 1,
                                !.visited = Append(@, after)]
        /\ heap' = [heap EXCEPT !.arrays[1] = after]
  /\ ret' = Returned(NoValue)
  /\ UNCHANGED <<target, source, kernelShape, strides, pads, accesses>>

NextIncrement ==
  \/ NewIndex
  \/ CallIncrementIndex

SpecIncrement == Init /\ [][NextIncrement]_vars

(* The calls of the routines that take shape arrays and return new ones.    *)
(* The array arguments of a call have references 1, 2, ... in the order of  *)
(* the parameters; an array the routine makes has the next reference.       *)
Perms(n) ==
  {p \in [1..n -> 0..(n - 1)] : \A i, j \in 1..n : p[i] = p[j] => i = j}

CallTranspose ==
  /\ Idle
  /\ \E dims \in Shapes :
       LET r == transpose(dims) IN
       /\ op' = "transpose"
       /\ args' = [dims |-> dims]
       /\ ret' = Returned(r.value)
       /\ heap' = IF r.sameArray
                    THEN [arrays |-> <<r.dims>>, args |-> [dims |-> 1],
                          result |-> <<1>>]
                    ELSE [arrays |-> <<r.dims, r.value>>, args |-> [dims |-> 1],
                          result |-> <<2>>]
  /\ UNCHANGED <<target, source, kernelShape, strides, pads, accesses>>

CallSortBasedOnPerm ==
  /\ Idle
  /\ \E a \in Shapes :
       \E perm \in {Undefined} \cup {Defined(p) : p \in Perms(Len(a))} :
         /\ op' = "sortBasedOnPerm"
         /\ args' = IF perm.defined THEN [a |-> a, perm |-> perm.value]
                    ELSE [a |-> a]
         /\ ret' = Returned(sortBasedOnPerm(a, perm))
         /\ heap' = IF perm.defined
                      THEN [arrays |-> <<a, perm.value, sortBasedOnPerm(a, perm)>>,
                            args |-> [a |-> 1, perm |-> 2], result |-> <<3>>]
                      ELSE [arrays |-> <<a, sortBasedOnPerm(a, perm)>>,
                            args |-> [a |-> 1], result |-> <<2>>]
  /\ UNCHANGED <<target, source, kernelShape, strides, pads, accesses>>

CallPadShape ==
  /\ Idle
  /\ \E dims \in Shapes :
       \E pad \in HeadTailPads(Len(dims)) :
         /\ op' = "padShape"
         /\ args' = [dims |-> dims, pad |-> pad]
         /\ ret' = Returned(padShape(dims, pad))
         /\ heap' = [arrays |-> <<dims, pad, padShape(dims, pad)>>,
                     args |-> [dims |-> 1, pad |-> 2], result |-> <<3>>]
  /\ UNCHANGED <<target, source, kernelShape, strides, pads, accesses>>

CallSplitDimsIntoTwo ==
  /\ Idle
  /\ \E dims \in Shapes :
       \E pick \in (-1)..Len(dims) :
         LET r == splitDimsIntoTwo(dims, pick) IN
         /\ op' = "splitDimsIntoTwo"
         /\ args' = [dims |-> dims, pick |-> pick]
         /\ ret' = Returned(r)
         /\ heap' = [arrays |-> <<dims, r[1], r[2]>>,
                     args |-> [dims |-> 1], result |-> <<2, 3>>]
  /\ UNCHANGED <<target, source, kernelShape, strides, pads, accesses>>

NextOwnership ==
  \/ CallTranspose
  \/ CallSortBasedOnPerm
  \/ CallPadShape
  \/ CallSplitDimsIntoTwo
  \/ CallCalculateReshapedDims
  \/ CallComputeStrides
  \/ CallCalcShape
  \/ CallSplitShape

SpecOwnership == Init /\ [][NextOwnership]_vars

(***************************************************************************)
(* Claims                                                                  *)
(***************************************************************************)

(* C1: with no -1 among the hints, calculateReshapedDims either fails or    *)
(* returns dims whose total size equals size(originalDims); in particular   *)
(* ([2,2],[4]) returns [4] and ([2,2],[5]) fails.                           *)
C1_ReshapePreservesSize ==
  (op = "calculateReshapedDims"
     /\ \A k \in 1..Len(args.shapeHints) : args.shapeHints[k] # -1)
  => /\ ret.threw \/ Product(ret.value) = Product(args.originalDims)
     /\ (args.originalDims = <<2, 2>> /\ args.shapeHints = <<4>>)
          => ret = Returned(<<4>>)
     /\ (args.originalDims = <<2, 2>> /\ args.shapeHints = <<5>>)
          => ret.threw

(* C5: getActualAxisFromNegativeValue fails for every axis outside          *)
(* [-rank, rank-1] (so for every axis < -rank); an accepted axis maps to    *)
(* axis + rank when negative and to itself otherwise, inside [0, rank-1].   *)
C5_AxisRangeChecked ==
  op = "getActualAxisFromNegativeValue"
  => /\ (args.axis < -args.tensorRank \/ args.axis > args.tensorRank - 1)
          => ret.threw
     /\ ~ret.threw
          => /\ ret.value = IF args.axis < 0 THEN args.axis + args.tensorRank
                            ELSE args.axis
             /\ ret.value \in 0..(args.tensorRank - 1)

(* C7: under strides = computeStrides(shape), for every in-range index      *)
(* vector idx, offsetToIndices(indicesToOffset(idx)) = idx, the offset lies *)
(* in [0, size(shape)), and distinct index vectors get distinct offsets.    *)
C7_OffsetIndexRoundTrip ==
  op = "indicesToOffset"
  => /\ offsetToIndices(ret.value, args.strides) = args.indices
     /\ ret.value \in 0..(Product(args.shape) - 1)
     /\ \A other \in IndicesOf(args.shape) :
          other # args.indices
            => indicesToOffset(other, args.strides) # ret.value

C7_Witness ==
  /\ op = "indicesToOffset"
  /\ args.shape = <<2, 3, 2>>
  /\ args.indices = <<1, 2, 1>>
  /\ ret.value = 11

(* Reference for C8: the positions of the -1 hints, and the product of the  *)
(* known dimensions (a 0 hint standing for the original dimension).         *)
UnknownHints(shapeHints) == {k \in 1..Len(shapeHints) : shapeHints[k] = -1}

KnownDims(originalDims, shapeHints) ==
  [k \in 1..Len(shapeHints) |->
     IF shapeHints[k] = -1 THEN 1
     ELSE IF shapeHints[k] = 0 THEN originalDims[k]
     ELSE shapeHints[k]]

MalformedHints(originalDims, shapeHints) ==
  \/ Cardinality(UnknownHints(shapeHints)) > 1
  \/ \E k \in 1..Len(shapeHints) : shapeHints[k] < -1
  \/ \E k \in 1..Len(shapeHints) : shapeHints[k] = 0 /\ k > Len(originalDims)

(* C8: with exactly one -1 (the other hints 0 within the original rank, or  *)
(* positive) calculateReshapedDims fails when size(originalDims) is not     *)
(* divisible by the product of the known dimensions and otherwise infers    *)
(* size(originalDims) / product, so the result has the original size; it    *)
(* fails whenever there is more than one -1, a hint < -1, or a 0 hint at an *)
(* index >= rank(originalDims).                                             *)
C8_ReshapeInfersDimension ==
  op = "calculateReshapedDims"
  => LET o == args.originalDims
         h == args.shapeHints
         known == Product(KnownDims(o, h))
     IN /\ MalformedHints(o, h) => ret.threw
        /\ (~MalformedHints(o, h) /\ Cardinality(UnknownHints(h)) = 1)
             => IF Product(o) % known # 0
                  THEN ret.threw
                  ELSE /\ ~ret.threw
                       /\ Len(ret.value) = Len(h)
                       /\ \A k \in 1..Len(h) :
                            ret.value[k] = IF h[k] = -1
                                             THEN Product(o) \div known
                                             ELSE KnownDims(o, h)[k]
                       /\ Product(ret.value) = Product(o)

C8_Witness ==
  /\ op = "calculateReshapedDims"
  /\ args.originalDims = <<2, 3>>
  /\ args.shapeHints = <<-1, 0>>
  /\ ret = Returned(<<2, 3>>)

(* C6: whenever calcShape(a, b) with isMatMul = false returns a shape c,    *)
(* a broadcasts unidirectionally into c, and so does b.                     *)
C6_CalcShapeIsValidBroadcast ==
  (op = "calcShape" /\ ~args.isMatMul /\ ret.defined)
  => /\ isValidBroadcast(args.adims, ret.value)
     /\ isValidBroadcast(args.bdims, ret.value)

C6_Witness ==
  /\ op = "calcShape"
  /\ ~args.isMatMul
  /\ args.adims = <<3, 1>>
  /\ args.bdims = <<2, 1, 3>>
  /\ ret = Defined(<<2, 3, 3>>)

BufferOps == {"arrayCopyHelper", "sqr", "axpy", "powx", "mul"}

(* C3: a call of arrayCopyHelper, sqr, axpy, powx or mul in which           *)
(* sourceIndex or targetIndex lies outside its buffer, or                   *)
(* sourceIndex + blockSize > source.length, or                              *)
(* targetIndex + blockSize > target.length, fails, and both buffers are     *)
(* left exactly as they were before the call.                               *)
C3_BoundsFailureWritesNothing ==
  (op \in BufferOps
     /\ \/ args.sourceIndex < 0 \/ args.sourceIndex >= Len(args.source)
        \/ args.targetIndex < 0 \/ args.targetIndex >= Len(args.target)
        \/ args.sourceIndex + args.blockSize > Len(args.source)
        \/ args.targetIndex + args.blockSize > Len(args.target))
  => /\ ret.threw
     /\ target = args.target
     /\ source = args.source

(* Both origins in range, the source block in range, the target block one   *)
(* element too long: the loop would have written before running off.        *)
C3_Witness ==
  /\ op = "axpy"
  /\ args.target = <<1, 5>>
  /\ args.source = <<2, 3>>
  /\ args.targetIndex = 1
  /\ args.sourceIndex = 0
  /\ args.blockSize = 2
  /\ args.alpha = 2
  /\ ret.threw
  /\ target = <<1, 5>>

(* Reference for C9: the inputs fit the expected ranks. *)
InputsFit(inputs, expectedRanks) ==
  /\ inputs.present
  /\ Len(inputs.items) = Len(expectedRanks)
  /\ \A k \in 1..Len(inputs.items) :
       /\ inputs.items[k].kind = "object"
       /\ inputs.items[k].hasDims
       /\ inputs.items[k].rank = expectedRanks[k]

(* C9 as stated: checkInputsShape never throws; for every inputs value      *)
(* (absent, of the wrong length, with null or undefined entries or entries  *)
(* without dims) it returns a boolean, true exactly when the inputs fit the *)
(* expected ranks.                                                          *)
C9_NeverThrows ==
  op = "checkInputsShape"
  => /\ ~ret.threw
     /\ ret.value = InputsFit(args.inputs, args.expectedDimensions)

(* The entry at which the loop of checkInputsShape stops, if any: the first *)
(* one that is not an object carrying dims of the expected length.          *)
FirstMisfit(inputs, expectedRanks) ==
  {k \in 1..Len(inputs.items) :
     /\ ~InputsFit(Present(<<inputs.items[k]>>), <<expectedRanks[k]>>)
     /\ \A j \in 1..(k - 1) :
          InputsFit(Present(<<inputs.items[j]>>), <<expectedRanks[j]>>)}

(* C9 as amended: checkInputsShape throws exactly when inputs has the       *)
(* expected length and the first entry that does not fit is null or         *)
(* undefined; in every other case (inputs absent, of the wrong length, or   *)
(* an entry without dims or of the wrong rank met first) it returns a       *)
(* boolean, true exactly when the inputs fit the expected ranks.            *)
C9_ThrowsOnlyOnNullEntry ==
  op = "checkInputsShape"
  => LET inputs == args.inputs
         expected == args.expectedDimensions
         reachesNull ==
           /\ inputs.present
           /\ Len(inputs.items) = Len(expected)
           /\ \E k \in FirstMisfit(inputs, expected) :
                inputs.items[k].kind # "object"
     IN /\ ret.threw <=> reachesNull
        /\ ~ret.threw => ret.value = InputsFit(inputs, expected)

(* An entry without dims is met before a null entry: false, no throw. *)
C9_Witness ==
  /\ op = "checkInputsShape"
  /\ args.inputs = Present(<<NoDimsEntry, NullEntry>>)
  /\ args.expectedDimensions = <<1, 1>>
  /\ ret = Returned(FALSE)

OutputShapeOps == {"computePoolOutputShape", "computeConvOutputShape"}

SameAutoPad ==
  /\ op \in OutputShapeOps
  /\ ~args.isGlobalOperator
  /\ args.autoPad \in {"SAME_UPPER", "SAME_LOWER"}

(* Reference for C2 and C10, in integers: the rule of the specification.    *)
CeilDiv(a, b) == (a + b - 1) \div b
SpecPadNeeded(inSize, stride, kernel) ==
  Max(0, (CeilDiv(inSize, stride) - 1) * stride + kernel - inSize)
SpecPadHead(inSize, stride, kernel, autoPad) ==
  IF autoPad = "SAME_UPPER"
    THEN SpecPadNeeded(inSize, stride, kernel) \div 2
    ELSE (SpecPadNeeded(inSize, stride, kernel) + 1) \div 2

(* C2: under SAME_UPPER and SAME_LOWER the pad pair written for every       *)
(* spatial axis is the rule's: padNeeded = max(0, (ceil(inSize/stride) - 1) *)
(* * stride + kernel - inSize), head = floor(padNeeded/2) for SAME_UPPER    *)
(* and ceil(padNeeded/2) for SAME_LOWER, tail = padNeeded - head; so        *)
(* [0,1] and [1,0] for inSize 32, stride 2, kernel 3.                       *)
C2_SamePadsFollowRule ==
  SameAutoPad
  => LET r == Len(args.inputDims) - 2 IN
     \A d \in 1..r :
       LET inSize == args.inputDims[d + 2]
           stride == args.strides[d]
           kernel == args.kernelShape[d]
           head == SpecPadHead(inSize, stride, kernel, args.autoPad)
       IN /\ pads[d] = head
          /\ pads[d + r] = SpecPadNeeded(inSize, stride, kernel) - head

(* C10: under SAME_UPPER and SAME_LOWER the output size of every spatial    *)
(* axis is floor((inSize + padNeeded - kernel) / stride) + 1 with the       *)
(* rule's padNeeded, which is ceil(inSize / stride); 16 for inSize 32,      *)
(* stride 2, kernel 3.                                                      *)
C10_SameOutputSize ==
  SameAutoPad
  => /\ ~ret.threw
     /\ Len(ret.value) = Len(args.inputDims)
     /\ \A d \in 1..(Len(args.inputDims) - 2) :
          LET inSize == args.inputDims[d + 2]
              stride == args.strides[d]
              kernel == args.kernelShape[d]
          IN /\ ret.value[d + 2] =
                  ((inSize + SpecPadNeeded(inSize, stride, kernel) - kernel)
                     \div stride) + 1
             /\ ret.value[d + 2] = CeilDiv(inSize, stride)

C10_Witness ==
  /\ op = "computePoolOutputShape"
  /\ ~args.isGlobalOperator
  /\ args.autoPad = "SAME_UPPER"
  /\ args.inputDims = <<1, 3, 32, 2>>
  /\ args.strides = <<2, 2>>
  /\ args.kernelShape = <<3, 1>>
  /\ ret = Returned(<<1, 3, 16, 1>>)

(* C4: whenever adjustPoolAttributes fails, the caller's kernelShape,       *)
(* strides and pads are as they were before the call: nothing overwritten,  *)
(* nothing appended.                                                        *)
C4_FailureLeavesAttributes ==
  (op = "adjustPoolAttributes" /\ ret.threw)
  => /\ kernelShape = args.kernelShape
     /\ strides = args.strides
     /\ pads = args.pads

(* C11: with autoPad absent or NOTSET and a non-global operation,           *)
(* computePoolOutputShape returns [inputDims[0], inputDims[1], ...] and     *)
(* computeConvOutputShape [inputDims[0], filterDims[0], ...], every spatial *)
(* output size being floor((inSize + padHead + padTail - kernel) / stride)  *)
(* + 1, and pads is left as it was; ([1,3,32,32],[1,1],[2,2],[0,0,0,0])     *)
(* gives [1,3,31,31].  With global pooling every spatial size is 1.         *)
C11_ExplicitPadsOutputShape ==
  /\ (op \in OutputShapeOps /\ ~args.isGlobalOperator
        /\ args.autoPad \in {"", "NOTSET"})
     => LET r == Len(args.inputDims) - 2 IN
        /\ ~ret.threw
        /\ Len(ret.value) = r + 2
        /\ ret.value[1] = args.inputDims[1]
        /\ ret.value[2] = IF op = "computePoolOutputShape"
                            THEN args.inputDims[2]
                            ELSE args.filterDims[1]
        /\ \A d \in 1..r :
             ret.value[d + 2] =
               ((args.inputDims[d + 2] + args.pads[d] + args.pads[d + r]
                   - args.kernelShape[d]) \div args.strides[d]) + 1
        /\ pads = args.pads
        /\ (op = "computePoolOutputShape"
              /\ args.inputDims = <<1, 3, 32, 32>> /\ args.strides = <<1, 1>>
              /\ args.kernelShape = <<2, 2>> /\ args.pads = <<0, 0, 0, 0>>)
           => ret.value = <<1, 3, 31, 31>>
  /\ (op = "computePoolOutputShape" /\ args.isGlobalOperator)
     => /\ ~ret.threw
        /\ ret.value = <<args.inputDims[1], args.inputDims[2]>>
                          \o [k \in 1..(Len(args.inputDims) - 2) |-> 1]

(* Head and tail pads differ, and the quotient is not whole. *)
C11_Witness ==
  /\ op = "computeConvOutputShape"
  /\ args.autoPad = ""
  /\ args.inputDims = <<1, 3, 32, 2>>
  /\ args.strides = <<2, 1>>
  /\ args.kernelShape = <<3, 2>>
  /\ args.pads = <<0, 0, 1, 1>>
  /\ ret = Returned(<<1, 4, 16, 2>>)
  /\ pads = <<0, 0, 1, 1>>

C11_GlobalWitness ==
  /\ op = "computePoolOutputShape"
  /\ args.isGlobalOperator
  /\ args.inputDims = <<1, 3, 32, 32>>
  /\ ret = Returned(<<1, 3, 1, 1>>)

(* C12: splitShape(dims, axis, [], numOutputs) fails when numOutputs is not *)
(* supplied or dims[axis] is not divisible by it; otherwise it returns      *)
(* exactly numOutputs shapes, each dims with dims[axis] / numOutputs at     *)
(* position axis, and offsets with offsets[0] = 0 and offsets[i] =          *)
(* offsets[i-1] + split[i-1], the split sizes summing to dims[axis];        *)
(* ([1,9,4],1,[],3) gives three [1,3,4] with offsets [0,3,6], and           *)
(* ([1,10,4],1,[],3) fails.                                                 *)
C12_EqualSplit ==
  (op = "splitShape" /\ args.split = <<>>)
  => LET n == args.numOutputs
         d == args.dims[args.axis + 1]
     IN /\ IF ~n.supplied \/ n.value = 0 \/ d % n.value # 0
             THEN ret.threw
             ELSE /\ ~ret.threw
                  /\ Len(ret.value.shapes) = n.value
                  /\ \A i \in 1..n.value :
                       ret.value.shapes[i] =
                         [args.dims EXCEPT ![args.axis + 1] = d \div n.value]
                  /\ Len(ret.value.offsets) = n.value
                  /\ ret.value.offsets[1] = 0
                  /\ \A i \in 2..n.value :
                       ret.value.offsets[i] =
                         ret.value.offsets[i - 1]
                           + ret.value.shapes[i - 1][args.axis + 1]
                  /\ ret.value.offsets[n.value]
                       + ret.value.shapes[n.value][args.axis + 1] = d
        /\ (args.dims = <<1, 9, 4>> /\ args.axis = 1 /\ n = Supplied(3))
             => ret = Returned([shapes |-> <<<<1, 3, 4>>, <<1, 3, 4>>, <<1, 3, 4>>>>,
                                offsets |-> <<0, 3, 6>>])
        /\ (args.dims = <<1, 10, 4>> /\ args.axis = 1 /\ n = Supplied(3))
             => ret.threw

C12_Witness ==
  /\ op = "splitShape"
  /\ args.split = <<>>
  /\ args.dims = <<1, 9, 4>>
  /\ args.axis = 1
  /\ args.numOutputs = Supplied(3)
  /\ ret.value.offsets = <<0, 3, 6>>

C12_FailureWitness ==
  /\ op = "splitShape"
  /\ args.split = <<>>
  /\ args.dims = <<1, 10, 4>>
  /\ args.axis = 1
  /\ args.numOutputs = Supplied(3)
  /\ ret.threw

(* Reference for C13: shape broadcasts unidirectionally into final when it  *)
(* is no longer and each of its dimensions, right-aligned, is 1 or the      *)
(* dimension of final.                                                      *)
BroadcastsInto(shape, final) ==
  /\ Len(shape) <= Len(final)
  /\ \A k \in 1..Len(shape) :
       \/ shape[k] = 1
       \/ shape[k] = final[k + Len(final) - Len(shape)]

(* C13: getShapeOfGemmResult returns [M,N] exactly when both operand shapes *)
(* have rank 2, the contracted dimensions agree after transLeft/transRight  *)
(* (left is (M,K) or, transposed, (K,M); right (K,N) or, transposed,        *)
(* (N,K)), M, N, K > 0 and biasShape broadcasts unidirectionally into       *)
(* [M,N]; in every other case it fails.  ([2,3],false,[3,4],false,[1,4])    *)
(* gives [2,4], and [2,3] with [5,4] fails.                                 *)
C13_GemmShape ==
  op = "getShapeOfGemmResult"
  => LET l == args.leftShape
         r == args.rightShape
         M == IF args.transLeft THEN l[2] ELSE l[1]
         KLeft == IF args.transLeft THEN l[1] ELSE l[2]
         KRight == IF args.transRight THEN r[2] ELSE r[1]
         N == IF args.transRight THEN r[1] ELSE r[2]
         accepted == /\ Len(l) = 2 /\ Len(r) = 2
                     /\ KLeft = KRight
                     /\ M > 0 /\ N > 0 /\ KLeft > 0
                     /\ BroadcastsInto(args.biasShape, <<M, N>>)
     IN /\ IF accepted THEN ret = Returned(<<M, N>>) ELSE ret.threw
        /\ (l = <<2, 3>> /\ ~args.transLeft /\ r = <<3, 4>> /\ ~args.transRight
              /\ args.biasShape = <<1, 4>>)
             => ret = Returned(<<2, 4>>)
        /\ (l = <<2, 3>> /\ ~args.transLeft /\ r = <<5, 4>> /\ ~args.transRight)
             => ret.threw

(* Both operands transposed: left [3,2] is (K,M), right [4,3] is (N,K). *)
C13_Witness ==
  /\ op = "getShapeOfGemmResult"
  /\ args.leftShape = <<3, 2>>
  /\ args.transLeft
  /\ args.rightShape = <<4, 3>>
  /\ args.transRight
  /\ args.biasShape = <<4>>
  /\ ret = Returned(<<2, 4>>)

(* Reference for C14, C15 and C19: the broadcasting rule.  The dimension of *)
(* shape at position k of a right-aligned shape of the given rank, a        *)
(* missing axis counting as 1.                                              *)
AlignedDim(shape, k, rank) ==
  IF k - (rank - Len(shape)) < 1 THEN 1 ELSE shape[k - (rank - Len(shape))]

BroadcastCompatible(a, b) ==
  LET rank == Max(Len(a), Len(b)) IN
  \A k \in 1..rank :
    \/ AlignedDim(a, k, rank) = AlignedDim(b, k, rank)
    \/ AlignedDim(a, k, rank) = 1
    \/ AlignedDim(b, k, rank) = 1

BroadcastShape(a, b) ==
  LET rank == Max(Len(a), Len(b)) IN
  [k \in 1..rank |-> Max(AlignedDim(a, k, rank), AlignedDim(b, k, rank))]

(* C14: calc on two tensors whose shapes are not broadcast-compatible (for  *)
(* example [3,2] and [4]) returns undefined without throwing, without       *)
(* making an output buffer and without reading or writing any element of a  *)
(* or b.                                                                    *)
C14_IncompatibleCalcDoesNothing ==
  (op = "calc" /\ ~BroadcastCompatible(args.a.shape, args.b.shape))
  => /\ ~ret.threw
     /\ ~ret.defined
     /\ heap.arrays = <<args.a.data, args.b.data>>
     /\ heap.result = <<>>
     /\ accesses = <<>>

C14_Witness ==
  /\ op = "calc"
  /\ args.a.shape = <<3, 2>>
  /\ args.b.shape = <<4>>
  /\ ~ret.threw
  /\ ~ret.defined
  /\ accesses = <<>>

(* C15: calcShape agrees with the broadcasting rule for all shapes of       *)
(* positive dimensions.  With isMatMul = false it returns undefined iff     *)
(* some right-aligned pair of dimensions differs with neither being 1, and  *)
(* otherwise the shape of rank max(rank(a), rank(b)) holding the larger of  *)
(* each pair.  With isMatMul = true it returns undefined if either rank is  *)
(* < 2 or a's last dimension differs from b's second-to-last; otherwise the *)
(* last two dimensions are [a[rank-2], b[rank-1]] and the leading axes are  *)
(* broadcast by the same rule.                                              *)
C15_CalcShapeFollowsRule ==
  op = "calcShape"
  => LET a == args.adims
         b == args.bdims
     IN IF ~args.isMatMul
          THEN IF BroadcastCompatible(a, b)
                 THEN ret = Defined(BroadcastShape(a, b))
                 ELSE ~ret.defined
          ELSE IF Len(a) < 2 \/ Len(b) < 2
                 THEN ~ret.defined
               ELSE IF a[Len(a)] # b[Len(b) - 1]
                 THEN ~ret.defined
               ELSE LET aLead == SubSeq(a, 1, Len(a) - 2)
                        bLead == SubSeq(b, 1, Len(b) - 2)
                    IN IF BroadcastCompatible(aLead, bLead)
                         THEN ret = Defined(BroadcastShape(aLead, bLead)
                                              \o <<a[Len(a) - 1], b[Len(b)]>>)
                         ELSE ~ret.defined

(* A batched product: [2,2,3] by [3,2] is [2,2,2]. *)
C15_Witness ==
  /\ op = "calcShape"
  /\ args.isMatMul
  /\ args.adims = <<2, 2, 3>>
  /\ args.bdims = <<3, 2>>
  /\ ret = Defined(<<2, 2, 2>>)

C15_BroadcastWitness ==
  /\ op = "calcShape"
  /\ ~args.isMatMul
  /\ args.adims = <<3, 1, 2>>
  /\ args.bdims = <<3, 1>>
  /\ ret = Defined(<<3, 3, 2>>)

(* C16: after a successful non-global call of adjustPoolAttributes with at  *)
(* most kernelRank strides and at most 2 * kernelRank pads supplied,        *)
(* kernelShape is unchanged, of length rank(inputDims) - 2 and every entry  *)
(* > 0; strides has exactly kernelRank entries, the supplied ones kept (all *)
(* >= 0) and 1 in every appended position; pads has exactly 2 * kernelRank  *)
(* entries, the supplied ones kept and 0 in every appended position; and    *)
(* for every spatial axis d, pads[d] and pads[d + kernelRank] lie in        *)
(* [0, kernelShape[d]).                                                     *)
C16_NormalizedAttributes ==
  (op = "adjustPoolAttributes" /\ ~ret.threw /\ ~args.isGlobalOperator
     /\ Len(args.strides) <= Len(args.kernelShape)
     /\ Len(args.pads) <= 2 * Len(args.kernelShape))
  => LET kernelRank == Len(args.kernelShape) IN
     /\ kernelShape = args.kernelShape
     /\ kernelRank = Len(args.inputDims) - 2
     /\ \A d \in 1..kernelRank : kernelShape[d] > 0
     /\ Len(strides) = kernelRank
     /\ \A d \in 1..kernelRank :
          IF d <= Len(args.strides)
            THEN strides[d] = args.strides[d] /\ strides[d] >= 0
            ELSE strides[d] = 1
     /\ Len(pads) = 2 * kernelRank
     /\ \A d \in 1..(2 * kernelRank) :
          IF d <= Len(args.pads) THEN pads[d] = args.pads[d] ELSE pads[d] = 0
     /\ \A d \in 1..kernelRank :
          /\ pads[d] \in 0..(kernelShape[d] - 1)
          /\ pads[d + kernelRank] \in 0..(kernelShape[d] - 1)

(* One stride and one pad supplied for two spatial axes. *)
C16_Witness ==
  /\ op = "adjustPoolAttributes"
  /\ ~ret.threw
  /\ ~args.isGlobalOperator
  /\ args.kernelShape = <<2, 1>>
  /\ args.strides = <<2>>
  /\ args.pads = <<1>>
  /\ strides = <<2, 1>>
  /\ pads = <<1, 0, 0, 0>>

(* C17: after a successful call of adjustPoolAttributes with                *)
(* isGlobalOperator = true, whatever kernelShape was supplied (empty,       *)
(* shorter than, as long as or longer than the spatial rank), kernelShape   *)
(* has length rank(inputDims) - 2 and kernelShape[d] = inputDims[d + 2] for *)
(* every spatial axis d.                                                    *)
C17_GlobalKernelIsSpatialExtent ==
  (op = "adjustPoolAttributes" /\ ~ret.threw /\ args.isGlobalOperator)
  => kernelShape = SubSeq(args.inputDims, 3, Len(args.inputDims))

(* Reference for C18: the row-major offset of an index of a shape. *)
RECURSIVE RowMajorOffset(_, _)
RowMajorOffset(idx, dims) ==
  IF idx = <<>> THEN 0
  ELSE RowMajorOffset(SubSeq(idx, 1, Len(idx) - 1), SubSeq(dims, 1, Len(dims) - 1))
         * dims[Len(dims)] + idx[Len(idx)]

(* C18: starting from the all-zero index of a shape and applying            *)
(* incrementIndex(index, dims) repeatedly, every index[k] stays in          *)
(* [0, dims[k]); the k-th step produces the index whose row-major offset is *)
(* k mod size(dims); after exactly size(dims) steps the index is all-zero   *)
(* again and every index of the shape has been visited exactly once.  With  *)
(* axisToIncrementOn = m, only positions [0, m) ever change.                *)
C18_IncrementIndexIsOdometer ==
  op \in {"newIndex", "incrementIndex"}
  => LET idx == heap.arrays[1]
         dims == args.dims
         rank == Len(dims)
         m == IF args.axisToIncrementOn.supplied
                THEN args.axisToIncrementOn.value ELSE rank
     IN /\ Len(idx) = rank
        /\ \A k \in 1..rank : idx[k] \in 0..(dims[k] - 1)
        /\ \A k \in (m + 1)..rank : idx[k] = 0
        /\ m = rank
             => /\ RowMajorOffset(idx, dims) = args.step % Product(dims)
                /\ args.step = Product(dims)
                     => /\ idx = [k \in 1..rank |-> 0]
                        /\ Len(args.visited) = Product(dims)
                        /\ {args.visited[i] : i \in 1..Len(args.visited)}
                             = IndicesOf(dims)

(* One full round of [2,3]: six calls, back at [0,0]. *)
C18_Witness ==
  /\ op = "incrementIndex"
  /\ args.dims = <<2, 3>>
  /\ ~args.axisToIncrementOn.supplied
  /\ args.step = 6
  /\ args.index = <<1, 2>>
  /\ heap.arrays[1] = <<0, 0>>

(* A partial axis: with axisToIncrementOn = 1 the second position stays 0. *)
C18_PartialWitness ==
  /\ op = "incrementIndex"
  /\ args.dims = <<3, 2>>
  /\ args.axisToIncrementOn = Supplied(1)
  /\ args.step = 2
  /\ heap.arrays[1] = <<2, 0>>

(* Reference for C19: every index of a shape, and what it is for an index   *)
(* of the result to be mapped rightly into an operand of the given shape.   *)
AllIndicesOf(shape) ==
  LET most == CHOOSE x \in {shape[k] : k \in 1..Len(shape)} :
                \A k \in 1..Len(shape) : shape[k] <= x
  IN {idx \in [1..Len(shape) -> 0..(most - 1)] :
        \A k \in 1..Len(shape) : idx[k] < shape[k]}

MapsInto(idx, mapped, shape, resultShape) ==
  LET shift == Len(resultShape) - Len(shape) IN
  /\ Len(mapped) = Len(shape)
  /\ \A i \in 1..Len(shape) :
       /\ mapped[i] \in 0..(shape[i] - 1)
       /\ shape[i] = 1 => mapped[i] = 0
       /\ shape[i] = resultShape[i + shift] => mapped[i] = idx[i + shift]

(* C19: for broadcast-compatible tensors a and b, calc returns a tensor c   *)
(* of shape calcShape(a.shape, b.shape) in which every position idx is      *)
(* written exactly once with op(a[ia], b[ib]), ia = index(idx, a.shape) and *)
(* ib = index(idx, b.shape); each mapped coordinate is in range for its     *)
(* operand, 0 on every axis of size 1 and the result's coordinate on every  *)
(* axis that is not broadcast; a and b are not modified.                    *)
C19_CalcAppliesOperatorElementwise ==
  (op = "calc" /\ BroadcastCompatible(args.a.shape, args.b.shape))
  => LET a == args.a
         b == args.b
         c == ret.value
         writes == {k \in 1..Len(accesses) : accesses[k].kind = "set"}
     IN /\ ~ret.threw
        /\ ret.defined
        /\ c.shape = calcShape(a.shape, b.shape, FALSE).value
        /\ c.shape = BroadcastShape(a.shape, b.shape)
        /\ Len(c.data) = Product(c.shape)
        /\ Cardinality(writes) = Product(c.shape)
        /\ \A k \in writes : accesses[k].tensor = "c"
        /\ \A idx \in AllIndicesOf(c.shape) :
             LET ia == index(idx, a.shape, FALSE)
                 ib == index(idx, b.shape, FALSE)
             IN /\ Cardinality({k \in writes : accesses[k].indices = idx}) = 1
                /\ MapsInto(idx, ia, a.shape, c.shape)
                /\ MapsInto(idx, ib, b.shape, c.shape)
                /\ c.data[RowMajorOffset(idx, c.shape) + 1] =
                     Apply(args.op, a.data[RowMajorOffset(ia, a.shape) + 1],
                                    b.data[RowMajorOffset(ib, b.shape) + 1])
        /\ heap.arrays[heap.args.a] = a.data
        /\ heap.arrays[heap.args.b] = b.data

(* [3,1] minus [2]: a column against a row. *)
C19_Witness ==
  /\ op = "calc"
  /\ args.op = "sub"
  /\ args.a.shape = <<3, 1>>
  /\ args.b.shape = <<2>>
  /\ ret.defined
  /\ ret.value.shape = <<3, 2>>
  /\ ret.value.data = <<-99, -199, -98, -198, -97, -197>>

OwnershipOps ==
  {"transpose", "sortBasedOnPerm", "padShape", "splitDimsIntoTwo",
   "calculateReshapedDims", "computeStrides", "calcShape", "splitShape"}

(* C20: after transpose, sortBasedOnPerm, padShape, splitDimsIntoTwo,       *)
(* calculateReshapedDims, computeStrides, calcShape and splitShape, every   *)
(* array argument (dims passed to transpose and split passed to splitShape  *)
(* among them) holds the elements it held before the call, and no array of  *)
(* the result is one of the arguments.                                      *)
C20_ArgumentsKeptResultFresh ==
  op \in OwnershipOps
  => /\ \A name \in DOMAIN heap.args :
          heap.arrays[heap.args[name]] = args[name]
     /\ \A i \in 1..Len(heap.result) :
          \A name \in DOMAIN heap.args : heap.result[i] # heap.args[name]

====
